---- MODULE Spec2Model ----
(***************************************************************************)
(* A model of the request-execution pipeline of request-middleware:        *)
(*   - the retry decorator          (src/src/middlewares/retry.ts)          *)
(*   - the error taxonomy           (src/src/engine/errors.ts)              *)
(*   - the client's terminal handler (src/src/client/httpClient.ts)         *)
(*   - the dispatch engine (onion model)                                    *)
(*   - the stream queue and the streaming call of the EventSource adapter.  *)
(* Each component has its own specification over its own variables (the    *)
(* streaming call also runs the stream queue); the variables of the other  *)
(* components stay at their initial value.                                 *)
(***************************************************************************)
EXTENDS Integers, Sequences, FiniteSets, TLC

VARIABLES
    \* ---- retry decorator (createRetryAdapter) ----
    options,        \* the destructured RetryMiddlewareOptions of the decorator
    retryPc,        \* "idle" | "await" (transport in flight) | "sleep" | "done"
    attempt,        \* the loop variable of request()
    lastError,      \* the variable lastError of request()
    calls,          \* number of adapter.request calls made so far
    trace,          \* the events of the request, in order
    observed,       \* the arguments of the onRetry calls, in order
    delay,          \* the duration handed to sleep(), in 1/Scale ms
    slept,          \* the durations of the sleep() calls so far, in order
    signalAborted,  \* config.signal.aborted
    outcome,        \* how the promise of request() settled
    history,        \* what kinds of failure the transport has thrown so far
    \* ---- calculateDelay as a pure function ----
    dIn,            \* the arguments of one calculateDelay call
    dOut,           \* its result and the value Math.random() took
    \* ---- dispatch engine and the client's terminal handler ----
    middlewares,    \* the engine's registered middleware list
    chain,          \* the list one dispatch composed
    dispatchPc,     \* "setup" | "running" | "done"
    pos,            \* the place in the chain control is at (Len(chain)+1: handler)
    dir,            \* "down": entering pos; "up": the next() of pos has settled
    exc,            \* the exception in flight, NoExc if none
    log,            \* the segments run so far, in order
    ctx,            \* the HttpContext of the dispatch
    dispatchResult, \* how the promise of dispatch() settled
    \* ---- stream queue of the EventSource adapter (createAsyncQueue) ----
    queue,          \* the closure variables of createAsyncQueue
    produced,       \* the push/close/fail calls made on the queue, in order
    settledAt,      \* for each pull settlement, Len(produced) when it settled
    \* ---- streaming call of the EventSource adapter (request) ----
    sessPc,         \* where the streaming call is: "idle", "connecting", "open", ...
    externalSignal, \* requestConfig.signal: "none" | "idle" | "aborted"
    timeoutId,      \* "none" | "requested" (timeout > 0) | "armed" | "fired" | "cleared"
    listening,      \* onExternalAbort is registered on the external signal
    abortController, \* signal.aborted and the abort events dispatched so far
    settled,        \* the variable settled of request()
    outerPromise,   \* the promise request() returns
    runDone,        \* the promise `done` of request() is resolved
    fetchResult,    \* how the promise of fetchEventSource settled
    sourceError,    \* the error the source is handling or rejected with
    cancelCalls,    \* for each session.cancel() call, the sessPc it was made at
    sent,           \* the number of messages the source has delivered
    openStatus,     \* the status the source reported on open, 0 before that
    variant,        \* which createEventSourceAdapter is built: "session" | "getOnly"
    requestMethod,  \* requestConfig.method
    connects,       \* the connection attempts made to the source so far
    \* ---- cursors over one stream (iterable[Symbol.asyncIterator]) ----
    cursors,        \* the cursors obtained from session.stream so far
    pullBy,         \* for each next() call on a cursor, the cursor it was made on
    holder,         \* the call whose resolve and reject the queue holds, 0 when none
    received,       \* for each next() call, its settlement or Suspended
    \* ---- normalizeError on its own (errors.ts) ----
    raw,            \* the value handed to normalizeError
    normalized,     \* what normalizeError returned, undefined before the call
    \* ---- client.request around the dispatch (httpClient.ts) ----
    adapterFailure, \* what adapter.request rejected with, undefined if it did not
    requestResult,  \* how the promise of client.request() settled
    \* ---- request() of the fetch adapter (fetch.ts) ----
    fetchPc,        \* where request() of the fetch adapter is: "idle", "awaiting", "settled", "done"
    userSignal,     \* processedConfig.signal: "none" | "idle" | "aborted"
    fetchTimer,     \* "none" | "requested" (timeout > 0) | "armed" | "fired" | "cleared"
    internalAbortController,\* "none" | "idle" | "aborted"
    userListener,   \* the abort listener on the user signal is registered
    fetchCalls,     \* the calls of fetchFn made so far
    causes,         \* the abort causes that fired during the request, in order
    fetchOutcome,   \* how the promise of fetchFn settled
    fetchReturn,    \* how the promise of request() settled
    \* ---- cacheMiddleware (cacheMiddleware.ts) ----
    cacheStore,     \* the module-level Map: for each key the response stored, 0 if none
    cacheCalls,     \* the calls of cacheMiddleware made so far, each with its context
    cacheClock,     \* the steps taken so far by the calls of cacheMiddleware
    responses,      \* the responses the downstream has produced so far
    \* ---- the middleware of createRetryMiddleware (retryMiddleware.ts) ----
    mwOptions,      \* the options of createRetryMiddleware: retries and delay
    mwPc,           \* where the middleware is: "idle", "calling", "sleeping", "done"
    mwI,            \* the loop variable i
    mwLastError,    \* lastError
    mwCtxError,     \* ctx.error is set
    mwCalls,        \* the calls of next() made so far
    mwSleeps,       \* for each delay waited, the i it was waited at
    mwAllThrew,     \* every call of next() so far has thrown
    mwResult,       \* how the promise of the middleware settled
    \* ---- the middleware of createThrottleMiddleware ----
    thOptions,      \* the options of createThrottleMiddleware: limit and interval
    now,            \* Date.now()
    timestamps,     \* timestamps
    thQueue,        \* queue: the waiting calls, by their number
    thCalls,        \* the calls of the middleware made so far
    wakeTimers      \* the times at which the pending wake-up timers are due

retryVars == <<options, retryPc, attempt, lastError, calls, trace, observed,
               delay, slept, signalAborted, outcome, history>>
delayVars == <<dIn, dOut>>
engineVars == <<middlewares, chain, dispatchPc, pos, dir, exc, log, ctx, dispatchResult>>
queueVars == <<queue, produced, settledAt>>
sessionVars == <<sessPc, externalSignal, timeoutId, listening, abortController,
                 settled, outerPromise, runDone, fetchResult, sourceError,
                 cancelCalls, sent, openStatus, variant, requestMethod, connects>>
cursorVars == <<cursors, pullBy, holder, received>>
normalizeVars == <<raw, normalized>>
clientVars == <<adapterFailure, requestResult>>
fetchVars == <<fetchPc, userSignal, fetchTimer, internalAbortController, userListener, fetchCalls, causes, fetchOutcome, fetchReturn>>
cacheVars == <<cacheStore, cacheCalls, cacheClock, responses>>
retryMwVars == <<mwOptions, mwPc, mwI, mwLastError, mwCtxError, mwCalls, mwSleeps, mwAllThrew, mwResult>>
throttleVars == <<thOptions, now, timestamps, thQueue, thCalls, wakeTimers>>
vars == <<retryVars, delayVars, engineVars, queueVars, sessionVars, cursorVars, normalizeVars, clientVars, fetchVars, cacheVars, retryMwVars, throttleVars>>

\* What the steps of one component leave alone: the state of the others.
outsideRetry == <<delayVars, engineVars, queueVars, sessionVars, cursorVars, normalizeVars, clientVars, fetchVars, cacheVars, retryMwVars, throttleVars>>
outsideDelay == <<retryVars, engineVars, queueVars, sessionVars, cursorVars, normalizeVars, clientVars, fetchVars, cacheVars, retryMwVars, throttleVars>>
outsideDispatch == <<retryVars, delayVars, queueVars, sessionVars, cursorVars, normalizeVars, fetchVars, cacheVars, retryMwVars, throttleVars>>
outsideQueue == <<retryVars, delayVars, engineVars, sessionVars, cursorVars, normalizeVars, clientVars, fetchVars, cacheVars, retryMwVars, throttleVars>>
outsideSession == <<retryVars, delayVars, engineVars, cursorVars, normalizeVars, clientVars, fetchVars, cacheVars, retryMwVars, throttleVars>>
outsideCursors == <<retryVars, delayVars, engineVars, sessionVars, normalizeVars, clientVars, fetchVars, cacheVars, retryMwVars, throttleVars>>
outsideNormalize == <<retryVars, delayVars, engineVars, queueVars, sessionVars, cursorVars, clientVars, fetchVars, cacheVars, retryMwVars, throttleVars>>
outsideFetch == <<retryVars, delayVars, engineVars, queueVars, sessionVars, cursorVars, normalizeVars, clientVars, cacheVars, retryMwVars, throttleVars>>
outsideCache == <<retryVars, delayVars, engineVars, queueVars, sessionVars, cursorVars, normalizeVars, clientVars, fetchVars, retryMwVars, throttleVars>>
outsideRetryMw == <<retryVars, delayVars, engineVars, queueVars, sessionVars, cursorVars, normalizeVars, clientVars, fetchVars, cacheVars, throttleVars>>
outsideThrottle == <<retryVars, delayVars, engineVars, queueVars, sessionVars, cursorVars, normalizeVars, clientVars, fetchVars, cacheVars, retryMwVars>>

Min(a, b) == IF a <= b THEN a ELSE b

RECURSIVE Pow2(_)
Pow2(n) == IF n = 0 THEN 1 ELSE 2 * Pow2(n - 1)

(***************************************************************************)
(* Bounds of the model.                                                    *)
(***************************************************************************)
MaxRetriesBound == 3    \* options.maxRetries ranges over 0..MaxRetriesBound
JitterSteps == 1        \* Math.random() ranges over the multiples of 1/JitterSteps
MaxAttemptArg == 3      \* calculateDelay's attempt ranges over 0..MaxAttemptArg
MaxBaseDelay == 3       \* baseDelay ranges over 0..MaxBaseDelay and {1000}
MaxMaxDelay == 5        \* maxDelay ranges over 0..MaxMaxDelay and {2000}
MaxMiddlewares == 3     \* a composed chain holds at most MaxMiddlewares middleware
MaxExtra == 1           \* a dispatch passes at most MaxExtra extra middleware
MaxPushes == 3          \* the source pushes at most MaxPushes messages
MaxProduced == 4        \* the producer makes at most MaxProduced calls on a queue
MaxPulls == 4           \* at most MaxPulls pulls are settled
MaxCancels == 2         \* session.cancel() is called at most MaxCancels times
MaxConnects == 2        \* the source connects at most MaxConnects times for one request
MaxCursors == 2         \* at most MaxCursors cursors are obtained from one stream
MaxCursorPulls == 3     \* at most MaxCursorPulls next() calls are made on the cursors
MaxCursorCalls == 3     \* the producer makes at most MaxCursorCalls calls on a shared stream
MaxCacheCalls == 3      \* cacheMiddleware is called at most MaxCacheCalls times
MaxMwRetries == 3       \* createRetryMiddleware is given at most MaxMwRetries retries
MaxLimit == 2           \* createThrottleMiddleware is given a limit of at most MaxLimit
MaxThCalls == 3         \* the throttle middleware is called at most MaxThCalls times
MaxTime == 4            \* Date.now() advances by at most MaxTime milliseconds

\* Delays are kept as integers in units of 1/Scale ms, so that a jitter of
\* 25% * k/JitterSteps of an integer delay is an integer.
Scale == 4 * JitterSteps

(***************************************************************************)
(* Error taxonomy (errors.ts).  An error value is a record; id is the      *)
(* number of the transport call that threw it (its identity).              *)
(***************************************************************************)
RequestErrorType == {"NETWORK", "TIMEOUT", "HTTP", "ABORTED", "PARSE", "UNKNOWN"}

\* HTTP statuses an HttpError may carry in the model; 0 stands for undefined.
HttpStatuses == {0, 400, 404, 408, 418, 429, 499, 500, 501, 502, 503, 504, 599}

NoError == [cls |-> "none", type |-> "none", status |-> 0, id |-> 0]

\* The errors a transport may throw: taxonomy errors (only the HTTP kind
\* carries a status) and raw errors that are no RequestError instance.
ThrownErrors(id) ==
    {[cls |-> "RequestError", type |-> t, status |-> 0, id |-> id] :
        t \in RequestErrorType \ {"HTTP"}}
    \cup {[cls |-> "RequestError", type |-> "HTTP", status |-> s, id |-> id] :
        s \in HttpStatuses}
    \cup {[cls |-> "raw", type |-> "none", status |-> 0, id |-> id]}

isRequestError(error) == error.cls = "RequestError"

isHttpError(error) == error.type = "HTTP"

isAbortedError(error) == error.type = "ABORTED"

\* RequestError.isRetryable(); `this.status &&` is false for undefined and 0.
isRetryable(error) ==
    IF error.type = "NETWORK" THEN TRUE
    ELSE IF error.type = "TIMEOUT" THEN TRUE
    ELSE IF error.type = "HTTP" /\ error.status # 0 /\ error.status >= 500 THEN TRUE
    ELSE FALSE

isRetryableErrorRawRetried(error) ==
    IF isRequestError(error) THEN isRetryable(error) ELSE TRUE

isRetryableError(error) ==
    IF isRequestError(error) THEN isRetryable(error) ELSE FALSE

(***************************************************************************)
(* Retry decorator (retry.ts).                                             *)
(***************************************************************************)
DEFAULT_RETRYABLE_STATUS_CODES_With404 == {404, 408, 429, 500, 502, 503, 504}

DEFAULT_RETRYABLE_STATUS_CODES_Without503 == {408, 429, 500, 502, 504}

DEFAULT_RETRYABLE_STATUS_CODES == {408, 429, 500, 502, 503, 504}

\* The caller-supplied shouldRetry predicates of the model; "none" stands
\* for an absent predicate.  "teapot" is the predicate of the test suite.
ShouldRetryNames == {"none", "always", "never", "teapot", "firstOnly"}

customShouldRetry(name, error, att) ==
    CASE name = "always" -> TRUE
      [] name = "never" -> FALSE
      [] name = "teapot" -> isRequestError(error) /\ isHttpError(error) /\ error.status = 418
      [] name = "firstOnly" -> att = 0

checkShouldRetryAbortRetried(error, att, retryableStatusCodes, shouldRetry) ==
    IF shouldRetry # "none" THEN customShouldRetry(shouldRetry, error, att)
    ELSE IF isRequestError(error) THEN
        IF isAbortedError(error) THEN TRUE
        ELSE IF isHttpError(error) /\ error.status # 0
            THEN error.status \in retryableStatusCodes
            ELSE isRetryable(error)
    ELSE isRetryableError(error)

checkShouldRetryStatusSetFirst(error, att, retryableStatusCodes, shouldRetry) ==
    IF isRequestError(error) /\ isHttpError(error) /\ error.status # 0
        THEN error.status \in retryableStatusCodes
    ELSE IF shouldRetry # "none" THEN customShouldRetry(shouldRetry, error, att)
    ELSE IF isRequestError(error) THEN
        IF isAbortedError(error) THEN FALSE ELSE isRetryable(error)
    ELSE isRetryableError(error)

checkShouldRetry(error, att, retryableStatusCodes, shouldRetry) ==
    IF shouldRetry # "none" THEN customShouldRetry(shouldRetry, error, att)
    ELSE IF isRequestError(error) THEN
        IF isAbortedError(error) THEN FALSE
        ELSE IF isHttpError(error) /\ error.status # 0
            THEN error.status \in retryableStatusCodes
            ELSE isRetryable(error)
    ELSE isRetryableError(error)

\* Lines 49-57 of calculateDelay with Math.random() = j / JitterSteps; the
\* result is in 1/Scale ms.
backoffDelayLinearFromZero(att, backoff, baseDelay, j) ==
    IF backoff = "exponential"
        THEN LET d == baseDelay * Pow2(att) IN d * Scale + d * j
        ELSE baseDelay * att * Scale

backoffDelay(att, backoff, baseDelay, j) ==
    IF backoff = "exponential"
        THEN LET d == baseDelay * Pow2(att) IN d * Scale + d * j
        ELSE baseDelay * (att + 1) * Scale

calculateDelayNoClamp(att, backoff, baseDelay, maxDelay, j) ==
    backoffDelay(att, backoff, baseDelay, j)

calculateDelay(att, backoff, baseDelay, maxDelay, j) ==
    Min(backoffDelay(att, backoff, baseDelay, j), maxDelay * Scale)

\* The values Math.random() takes in the model, as multiples of 1/JitterSteps:
\* a grid on [0, 1) and its limit 1.
RandomSteps == 0 .. JitterSteps

\* The option records createRetryAdapter may hold after destructuring.
RetryBaseDelays == {1, 100}
RetryMaxDelays == {150, 30000}
CustomStatusCodes == {404, 501}

RetryOptions ==
    [maxRetries : 0 .. MaxRetriesBound,
     backoff : {"linear", "exponential"},
     baseDelay : RetryBaseDelays,
     maxDelay : RetryMaxDelays,
     retryableStatusCodes : {"default", "custom"},
     shouldRetry : ShouldRetryNames,
     onRetry : BOOLEAN]

\* `retryableStatusCodes = DEFAULT_RETRYABLE_STATUS_CODES` of the destructuring.
statusCodes(opts) ==
    IF opts.retryableStatusCodes = "default"
        THEN DEFAULT_RETRYABLE_STATUS_CODES
        ELSE CustomStatusCodes

Pending == [kind |-> "pending", value |-> 0, error |-> NoError]
Resolved(v) == [kind |-> "resolved", value |-> v, error |-> NoError]
Rejected(e) == [kind |-> "rejected", value |-> 0, error |-> e]

Is4xx(error) ==
    isRequestError(error) /\ isHttpError(error)
    /\ error.status >= 400 /\ error.status < 500

Is5xx(error) ==
    isRequestError(error) /\ isHttpError(error) /\ error.status >= 500

InitRetry ==
    /\ options \in RetryOptions
    /\ retryPc = "idle"
    /\ attempt = 0
    /\ lastError = NoError
    /\ calls = 0
    /\ trace = <<>>
    /\ observed = <<>>
    /\ delay = 0
    /\ slept = <<>>
    /\ signalAborted = FALSE
    /\ outcome = Pending
    /\ history = [allRetryable |-> TRUE, all4xx |-> TRUE, allUnlisted4xx |-> TRUE]

\* The loop condition `attempt <= maxRetries` of request().
loopContinuesStrict(att, maxRetries) == att < maxRetries

loopContinues(att, maxRetries) == att <= maxRetries

\* Lines 130-138 of the catch block: rethrow on the last attempt or on a
\* failure judged not retryable, otherwise go on to retry.
retryDecisionIgnoringJudgement(att, maxRetries, judged) ==
    IF att = maxRetries THEN "throw" ELSE "retry"

retryDecision(att, maxRetries, judged) ==
    IF att = maxRetries THEN "throw"
    ELSE IF ~judged THEN "throw"
    ELSE "retry"

\* The arguments of `onRetry(error, attempt + 1)`.
onRetryArgsZeroBased(error, att) == [error |-> error.id, attempt |-> att]

onRetryArgs(error, att) == [error |-> error.id, attempt |-> att + 1]

\* request(config): the loop starts with attempt = 0 and calls the adapter.
Request ==
    /\ retryPc = "idle"
    /\ attempt' = 0
    /\ IF loopContinues(0, options.maxRetries)
       THEN /\ retryPc' = "await"
            /\ calls' = calls + 1
            /\ trace' = Append(trace, "call")
            /\ UNCHANGED outcome
       ELSE /\ retryPc' = "done"
            /\ outcome' = Rejected(lastError)
            /\ trace' = Append(trace, "throw")
            /\ UNCHANGED calls
    /\ UNCHANGED <<options, lastError, observed, delay, slept, signalAborted, history>>

\* `return await adapter.request(config)` resolves: the value is returned.
TransportResolve ==
    /\ retryPc = "await"
    /\ retryPc' = "done"
    /\ outcome' = Resolved(calls)
    /\ trace' = Append(trace, "ok")
    /\ UNCHANGED <<options, attempt, lastError, calls, observed, delay, slept,
                   signalAborted, history>>

\* What the transport's failures have been so far (for the claims only).
Record(error) ==
    [allRetryable |-> history.allRetryable
        /\ checkShouldRetry(error, attempt, statusCodes(options), options.shouldRetry),
     all4xx |-> history.all4xx /\ Is4xx(error),
     allUnlisted4xx |-> history.allUnlisted4xx /\ Is4xx(error)
        /\ error.status \notin {408, 429}]

\* The catch block of request(), from `lastError = error` to `await sleep(delay)`.
CatchBlock(error) ==
    /\ lastError' = error
    /\ history' = Record(error)
    /\ IF retryDecision(attempt, options.maxRetries,
                        checkShouldRetry(error, attempt, statusCodes(options),
                                         options.shouldRetry)) = "throw"
       THEN /\ retryPc' = "done"
            /\ outcome' = Rejected(error)
            /\ trace' = trace \o <<"fail", "throw">>
            /\ UNCHANGED <<observed, delay, slept>>
       ELSE /\ \E j \in RandomSteps :
                delay' = calculateDelay(attempt, options.backoff, options.baseDelay,
                                        options.maxDelay, j)
            /\ slept' = Append(slept, delay')
            /\ observed' = IF options.onRetry
                             THEN Append(observed, onRetryArgs(error, attempt))
                             ELSE observed
            /\ trace' = trace \o (IF options.onRetry THEN <<"fail", "onRetry", "sleep">>
                                                      ELSE <<"fail", "sleep">>)
            /\ retryPc' = "sleep"
            /\ UNCHANGED outcome
    /\ UNCHANGED <<options, attempt, calls, signalAborted>>

\* adapter.request(config) rejects with some error.
TransportReject ==
    /\ retryPc = "await"
    /\ \E error \in ThrownErrors(calls) : CatchBlock(error)

\* The timer of sleep(delay) fires: attempt++, the loop condition, and the
\* next adapter call (or `throw lastError` after the loop).
SleepElapsed ==
    /\ retryPc = "sleep"
    /\ attempt' = attempt + 1
    /\ IF loopContinues(attempt + 1, options.maxRetries)
       THEN /\ retryPc' = "await"
            /\ calls' = calls + 1
            /\ trace' = trace \o <<"wake", "call">>
            /\ UNCHANGED outcome
       ELSE /\ retryPc' = "done"
            /\ outcome' = Rejected(lastError)
            /\ trace' = trace \o <<"wake", "throw">>
            /\ UNCHANGED calls
    /\ UNCHANGED <<options, lastError, observed, delay, slept, signalAborted, history>>

\* The caller aborts the signal of the request description.
AbortSignal ==
    /\ ~signalAborted
    /\ retryPc \in {"await", "sleep"}
    /\ signalAborted' = TRUE
    /\ UNCHANGED <<options, retryPc, attempt, lastError, calls, trace, observed,
                   delay, slept, outcome, history>>

(***************************************************************************)
(* calculateDelay as a pure function: one call on arguments drawn in Init. *)
(***************************************************************************)
DelayArgs ==
    [attempt : 0 .. MaxAttemptArg,
     backoff : {"linear", "exponential"},
     baseDelay : (0 .. MaxBaseDelay) \cup {1000},
     maxDelay : (0 .. MaxMaxDelay) \cup {2000}]

NotCalled == [called |-> FALSE, random |-> 0, delay |-> 0]

InitDelay ==
    /\ dIn \in DelayArgs
    /\ dOut = NotCalled

CalculateDelay ==
    /\ ~dOut.called
    /\ \E j \in RandomSteps :
          dOut' = [called |-> TRUE, random |-> j,
                   delay |-> calculateDelay(dIn.attempt, dIn.backoff, dIn.baseDelay,
                                            dIn.maxDelay, j)]
    /\ UNCHANGED dIn

(***************************************************************************)
(* Dispatch engine (onion model) and the terminal handler of the client.   *)
(* A middleware is described by what its code does: its segment before     *)
(* next() ends by calling next(), by throwing or by returning; when the    *)
(* awaited next() rejects it either catches or lets the exception pass; its *)
(* segment after next() returns or throws.                                 *)
(***************************************************************************)
MwBehaviours ==
    {[pre |-> "throw", onError |-> "propagate", post |-> "return"],
     [pre |-> "return", onError |-> "propagate", post |-> "return"]}
    \cup [pre : {"next"}, onError : {"catch", "propagate"}, post : {"return", "throw"}]

NoExc == [origin |-> 0, seg |-> "none"]

Event(ev, mw) == [ev |-> ev, mw |-> mw]

RECURSIVE Reverse(_)
Reverse(seq) == IF seq = <<>> THEN <<>> ELSE Append(Reverse(Tail(seq)), Head(seq))

\* The list one dispatch runs: registered middleware, then the extra ones.
buildChainReversed(registered, extra) == Reverse(registered \o extra)

buildChain(registered, extra) == registered \o extra

InitEngine ==
    /\ middlewares = <<>>
    /\ chain = <<>>
    /\ dispatchPc = "setup"
    /\ pos = 0
    /\ dir = "down"
    /\ exc = NoExc
    /\ log = <<>>
    /\ ctx = [response |-> "unset", error |-> NoExc]
    /\ dispatchResult = Pending

\* use(mw): append to the registered list.
Use ==
    /\ dispatchPc = "setup"
    /\ Len(middlewares) < MaxMiddlewares
    /\ \E b \in MwBehaviours :
          middlewares' = Append(middlewares, [id |-> Len(middlewares) + 1, beh |-> b])
    /\ UNCHANGED <<chain, dispatchPc, pos, dir, exc, log, ctx, dispatchResult>>

\* The extraMiddlewares lists of k middleware, numbered from `first` on.
RECURSIVE ExtraOfLen(_, _)
ExtraOfLen(k, first) ==
    IF k = 0 THEN {<<>>}
    ELSE {<<[id |-> first, beh |-> b]>> \o rest :
            b \in MwBehaviours, rest \in ExtraOfLen(k - 1, first + 1)}

ExtraLists(n) ==
    UNION {ExtraOfLen(k, Len(middlewares) + 1) : k \in 0 .. Min(n, MaxExtra)}

\* dispatch(ctx, finalHandler, extraMiddlewares): compose the chain and
\* invoke it on a fresh context.
Dispatch ==
    /\ dispatchPc = "setup"
    /\ \E extra \in ExtraLists(MaxMiddlewares - Len(middlewares)) :
          chain' = buildChain(middlewares, extra)
    /\ dispatchPc' = "running"
    /\ pos' = 1
    /\ dir' = "down"
    /\ UNCHANGED <<middlewares, exc, log, ctx, dispatchResult>>

\* Control enters the middleware at pos: its segment before next() runs.
EnterMiddlewareSwallowingThrow ==
    /\ dispatchPc = "running"
    /\ dir = "down"
    /\ pos <= Len(chain)
    /\ log' = Append(log, Event("pre", chain[pos].id))
    /\ IF chain[pos].beh.pre = "return"
       THEN pos' = pos - 1 /\ dir' = "up" /\ UNCHANGED exc
       ELSE pos' = pos + 1 /\ dir' = "down" /\ UNCHANGED exc
    /\ UNCHANGED <<middlewares, chain, dispatchPc, ctx, dispatchResult>>

EnterMiddleware ==
    /\ dispatchPc = "running"
    /\ dir = "down"
    /\ pos <= Len(chain)
    /\ log' = Append(log, Event("pre", chain[pos].id))
    /\ CASE chain[pos].beh.pre = "next" ->
                pos' = pos + 1 /\ dir' = "down" /\ UNCHANGED exc
         [] chain[pos].beh.pre = "throw" ->
                /\ exc' = [origin |-> chain[pos].id, seg |-> "pre"]
                /\ pos' = pos - 1
                /\ dir' = "up"
         [] chain[pos].beh.pre = "return" ->
                pos' = pos - 1 /\ dir' = "up" /\ UNCHANGED exc
    /\ UNCHANGED <<middlewares, chain, dispatchPc, ctx, dispatchResult>>

\* The next() awaited by the middleware at pos has settled: a rejection is
\* caught or passes through; otherwise the segment after next() runs.
ResumeMiddleware ==
    /\ dispatchPc = "running"
    /\ dir = "up"
    /\ pos >= 1
    /\ LET m == chain[pos]
           postExc == IF m.beh.post = "throw"
                        THEN [origin |-> m.id, seg |-> "post"]
                        ELSE NoExc
       IN IF exc # NoExc
          THEN IF m.beh.onError = "catch"
               THEN /\ log' = log \o <<Event("rejects", m.id), Event("post", m.id)>>
                    /\ exc' = postExc
               ELSE /\ log' = Append(log, Event("rejects", m.id))
                    /\ UNCHANGED exc
          ELSE /\ log' = Append(log, Event("post", m.id))
               /\ exc' = postExc
    /\ pos' = pos - 1
    /\ UNCHANGED <<middlewares, chain, dispatchPc, dir, ctx, dispatchResult>>

\* The outermost continuation has settled: so does the promise of dispatch().
DispatchSettlesWrapped ==
    /\ dispatchPc = "running"
    /\ dir = "up"
    /\ pos = 0
    /\ dispatchPc' = "done"
    /\ dispatchResult' = IF exc = NoExc
                            THEN Resolved(0)
                            ELSE [kind |-> "rejected", value |-> 0,
                                  error |-> [origin |-> 0, seg |-> "engine"]]
    /\ UNCHANGED <<middlewares, chain, pos, dir, exc, log, ctx>>

DispatchSettles ==
    /\ dispatchPc = "running"
    /\ dir = "up"
    /\ pos = 0
    /\ dispatchPc' = "done"
    /\ dispatchResult' = IF exc = NoExc
                            THEN Resolved(0)
                            ELSE [kind |-> "rejected", value |-> 0, error |-> exc]
    /\ UNCHANGED <<middlewares, chain, pos, dir, exc, log, ctx>>

(***************************************************************************)
(* The stream queue of the EventSource adapter (createAsyncQueue).  The    *)
(* queue is a record of the closure's variables; a producer call or a pull *)
(* maps a queue to the queue it leaves behind.  The field results is the   *)
(* list of pull settlements so far, in the order they were settled.        *)
(***************************************************************************)
\* A JavaScript value that can be thrown: cls is its class, type the taxonomy
\* kind of a RequestError, words the keywords its lower-cased message
\* contains, cased those of them the message contains as written.
undefined ==
    [cls |-> "undefined", type |-> "none", name |-> "", words |-> {},
     cased |-> {}, status |-> 0, id |-> 0]

\* `if (failure)`: the errors of the model are objects, hence truthy.
truthy(v) == v.cls # "undefined"

PlainError(id) ==
    [cls |-> "Error", type |-> "none", name |-> "Error", words |-> {},
     cased |-> {}, status |-> 0, id |-> id]

\* The settlements of a pull: IteratorResult values and a rejection.
ValueResult(value) == [kind |-> "value", value |-> value, error |-> undefined]
DoneResult == [kind |-> "done", value |-> 0, error |-> undefined]
Rejection(err) == [kind |-> "reject", value |-> 0, error |-> err]

createAsyncQueue ==
    [isClosed |-> FALSE, failure |-> undefined, values |-> <<>>,
     resolveNext |-> FALSE, done |-> FALSE, results |-> <<>>]

\* resolveNext(r) or rejectNext(r), or a promise returned already settled.
settle(q, r) == [q EXCEPT !.results = Append(@, r), !.resolveNext = FALSE]

settleDoneNever(q) == q

settleDone(q) == [q EXCEPT !.done = TRUE]

nextValuesFirst(q) ==
    IF Len(q.values) > 0
        THEN settle([q EXCEPT !.values = Tail(@)], ValueResult(Head(q.values)))
    ELSE IF truthy(q.failure) THEN settle(q, Rejection(q.failure))
    ELSE IF q.isClosed THEN settle(settleDone(q), DoneResult)
    ELSE [q EXCEPT !.resolveNext = TRUE]

nextPeeking(q) ==
    IF truthy(q.failure) THEN settle(q, Rejection(q.failure))
    ELSE IF Len(q.values) > 0 THEN settle(q, ValueResult(Head(q.values)))
    ELSE IF q.isClosed THEN settle(settleDone(q), DoneResult)
    ELSE [q EXCEPT !.resolveNext = TRUE]

next(q) ==
    IF truthy(q.failure) THEN settle(q, Rejection(q.failure))
    ELSE IF Len(q.values) > 0
        THEN settle([q EXCEPT !.values = Tail(@)], ValueResult(Head(q.values)))
    ELSE IF q.isClosed THEN settle(settleDone(q), DoneResult)
    ELSE [q EXCEPT !.resolveNext = TRUE]

pushUnshift(q, value) ==
    IF q.isClosed \/ truthy(q.failure) THEN q
    ELSE IF q.resolveNext THEN settle(q, ValueResult(value))
    ELSE [q EXCEPT !.values = <<value>> \o @]

pushIgnoringTerminal(q, value) ==
    IF q.resolveNext THEN settle(q, ValueResult(value))
    ELSE [q EXCEPT !.values = Append(@, value)]

push(q, value) ==
    IF q.isClosed \/ truthy(q.failure) THEN q
    ELSE IF q.resolveNext THEN settle(q, ValueResult(value))
    ELSE [q EXCEPT !.values = Append(@, value)]

closeLeavingPull(q) ==
    IF q.isClosed THEN q
    ELSE settleDone([q EXCEPT !.isClosed = TRUE])

close(q) ==
    IF q.isClosed THEN q
    ELSE LET closed == [q EXCEPT !.isClosed = TRUE]
         IN settleDone(IF q.resolveNext THEN settle(closed, DoneResult) ELSE closed)

failIgnoringClosed(q, err) ==
    IF truthy(q.failure) THEN q
    ELSE LET failed == [q EXCEPT !.failure = err]
         IN settleDone(IF q.resolveNext THEN settle(failed, Rejection(err)) ELSE failed)

fail(q, err) ==
    IF truthy(q.failure) \/ q.isClosed THEN q
    ELSE LET failed == [q EXCEPT !.failure = err]
         IN settleDone(IF q.resolveNext THEN settle(failed, Rejection(err)) ELSE failed)

\* The errors the producer of the queue specification fails with.
QueueErrors == {PlainError(1), PlainError(2)}

PushCall(value) == [op |-> "push", value |-> value, error |-> undefined]
CloseCall == [op |-> "close", value |-> 0, error |-> undefined]
FailCall(err) == [op |-> "fail", value |-> 0, error |-> err]

\* The number of push calls in a list of producer calls.
RECURSIVE Pushes(_)
Pushes(callList) ==
    IF callList = <<>> THEN 0
    ELSE Pushes(Tail(callList)) + (IF Head(callList).op = "push" THEN 1 ELSE 0)

InitQueue ==
    /\ queue = createAsyncQueue
    /\ produced = <<>>
    /\ settledAt = <<>>

\* Every settlement of the step is stamped with the calls made so far.
Stamp ==
    settledAt' = settledAt \o
        [i \in 1 .. Len(queue'.results) - Len(queue.results) |-> Len(produced')]

\* The source pushes its next message; messages are numbered in push order.
Push ==
    /\ Len(produced) < MaxProduced
    /\ Pushes(produced) < MaxPushes
    /\ LET value == Pushes(produced) + 1
       IN /\ queue' = push(queue, value)
          /\ produced' = Append(produced, PushCall(value))
    /\ Stamp

Close ==
    /\ Len(produced) < MaxProduced
    /\ queue' = close(queue)
    /\ produced' = Append(produced, CloseCall)
    /\ Stamp

Fail ==
    /\ Len(produced) < MaxProduced
    /\ \E err \in QueueErrors :
        /\ queue' = fail(queue, err)
        /\ produced' = Append(produced, FailCall(err))
    /\ Stamp

\* The consumer calls next() on the iterator; a single consumer awaits the
\* settlement of a pull before it pulls again.
Pull ==
    /\ ~queue.resolveNext
    /\ Len(queue.results) < MaxPulls
    /\ queue' = next(queue)
    /\ UNCHANGED produced
    /\ Stamp

(***************************************************************************)
(* Several cursors over one stream.  iterable[Symbol.asyncIterator]()      *)
(* returns a new object each time, but its next() works on the closure     *)
(* variables of the one queue; a cursor awaits the settlement of its pull  *)
(* before it pulls again, and different cursors do not wait for each other.*)
(***************************************************************************)
\* A pull whose promise is not settled.
Suspended == [kind |-> "suspended", value |-> 0, error |-> undefined]

InitCursors ==
    /\ InitQueue
    /\ cursors = 0
    /\ pullBy = <<>>
    /\ holder = 0
    /\ received = <<>>

\* resolveNext(...) or rejectNext(...) settles the pull that stored them.
HandOver ==
    IF queue.resolveNext /\ ~queue'.resolveNext
        THEN /\ received' = [received EXCEPT ![holder] =
                                queue'.results[Len(queue'.results)]]
             /\ holder' = 0
        ELSE UNCHANGED <<holder, received>>

\* session.stream[Symbol.asyncIterator]()
GetCursor ==
    /\ cursors < MaxCursors
    /\ cursors' = cursors + 1
    /\ UNCHANGED <<pullBy, holder, received, queueVars>>

\* next() on one of the cursors: a pull that suspends stores its resolve and
\* reject in the queue, over those of a pull suspended before it.
CursorPull ==
    /\ Len(pullBy) < MaxCursorPulls
    /\ \E c \in 1 .. cursors :
        /\ \A i \in 1 .. Len(pullBy) : pullBy[i] = c => received[i] # Suspended
        /\ pullBy' = Append(pullBy, c)
    /\ queue' = next(queue)
    /\ IF queue'.resolveNext
          THEN /\ holder' = Len(pullBy')
               /\ received' = Append(received, Suspended)
          ELSE /\ holder' = holder
               /\ received' = Append(received, queue'.results[Len(queue'.results)])
    /\ UNCHANGED <<cursors, produced>>
    /\ Stamp

CursorPush ==
    /\ Len(produced) < MaxCursorCalls
    /\ Push
    /\ HandOver
    /\ UNCHANGED <<cursors, pullBy>>

CursorClose ==
    /\ Len(produced) < MaxCursorCalls
    /\ Close
    /\ HandOver
    /\ UNCHANGED <<cursors, pullBy>>

CursorFail ==
    /\ Len(produced) < MaxCursorCalls
    /\ Fail
    /\ HandOver
    /\ UNCHANGED <<cursors, pullBy>>

(***************************************************************************)
(* normalizeError (errors.ts) on JavaScript values.                        *)
(***************************************************************************)
TaxonomyError(type, err) ==
    [cls |-> "RequestError", type |-> type, name |-> "RequestError",
     words |-> err.words, cased |-> err.cased, status |-> 0, id |-> err.id]

\* `error instanceof Error` for the classes of the model.
instanceofError(err) == err.cls \in {"Error", "TypeError", "DOMException", "RequestError"}

normalizeErrorAbortFirst(err) ==
    IF err.cls = "RequestError" THEN err
    ELSE IF err.cls = "DOMException" /\ err.name = "AbortError"
        THEN TaxonomyError("ABORTED", [err EXCEPT !.words = {"abort"}, !.cased = {}])
    ELSE IF err.cls = "TypeError" /\ err.cased \cap {"fetch", "network"} # {}
        THEN TaxonomyError("NETWORK", err)
    ELSE IF instanceofError(err) THEN
        IF err.name = "AbortError" \/ "abort" \in err.words
            THEN TaxonomyError("ABORTED", err)
        ELSE IF "timeout" \in err.words THEN TaxonomyError("TIMEOUT", err)
        ELSE IF err.words \cap {"network", "failed to fetch", "econnrefused"} # {}
            THEN TaxonomyError("NETWORK", err)
        ELSE TaxonomyError("UNKNOWN", err)
    ELSE TaxonomyError("UNKNOWN", [err EXCEPT !.words = {}, !.cased = {}])

normalizeError(err) ==
    IF err.cls = "RequestError" THEN err
    ELSE IF err.cls = "DOMException" /\ err.name = "AbortError"
        THEN TaxonomyError("ABORTED", [err EXCEPT !.words = {"abort"}, !.cased = {}])
    ELSE IF err.cls = "TypeError" /\ err.cased \cap {"fetch", "network"} # {}
        THEN TaxonomyError("NETWORK", err)
    ELSE IF instanceofError(err) THEN
        IF "timeout" \in err.words THEN TaxonomyError("TIMEOUT", err)
        ELSE IF err.name = "AbortError" \/ "abort" \in err.words
            THEN TaxonomyError("ABORTED", err)
        ELSE IF err.words \cap {"network", "failed to fetch", "econnrefused"} # {}
            THEN TaxonomyError("NETWORK", err)
        ELSE TaxonomyError("UNKNOWN", err)
    ELSE TaxonomyError("UNKNOWN", [err EXCEPT !.words = {}, !.cased = {}])

\* The values normalizeError is handed: what it looks at is the class, the
\* name and which keywords the message contains.  words holds the keywords
\* found in message.toLowerCase(), cased those found in message itself.
RawClasses ==
    {[cls |-> "Error", type |-> "none", name |-> "Error"],
     [cls |-> "Error", type |-> "none", name |-> "AbortError"],
     [cls |-> "TypeError", type |-> "none", name |-> "TypeError"],
     [cls |-> "DOMException", type |-> "none", name |-> "AbortError"],
     [cls |-> "DOMException", type |-> "none", name |-> "NotFoundError"],
     [cls |-> "string", type |-> "none", name |-> ""]}
    \cup {[cls |-> "RequestError", type |-> t, name |-> "RequestError"] :
             t \in RequestErrorType}

RawValues ==
    {[cls |-> k.cls, type |-> k.type, name |-> k.name, words |-> w, cased |-> c,
      status |-> 0, id |-> 1] :
        k \in RawClasses,
        w \in SUBSET {"timeout", "abort", "network", "failed to fetch"},
        c \in SUBSET {"fetch", "network"}}

InitNormalize ==
    /\ raw \in {v \in RawValues : "network" \in v.cased => "network" \in v.words}
    /\ normalized = undefined

\* normalizeError(raw)
Normalize ==
    /\ normalized = undefined
    /\ normalized' = normalizeError(raw)
    /\ UNCHANGED raw

(***************************************************************************)
(* The streaming call of the EventSource adapter: request() of             *)
(* createEventSourceAdapter.  fetchEventSource is the environment: it      *)
(* calls onopen once, then onmessage any number of times, and ends its run *)
(* by onclose and resolving, by onerror and rejecting with what onerror    *)
(* threw, or, once the abort signal is aborted, by resolving quietly.      *)
(***************************************************************************)
Unsettled == [kind |-> "pending", error |-> undefined]
Fulfilled == [kind |-> "resolved", error |-> undefined]
RejectedWith(err) == [kind |-> "rejected", error |-> err]

\* `response.ok`.
ok(status) == status >= 200 /\ status <= 299

\* The statuses the source may report when the connection opens.
OpenStatuses == {200, 204, 404, 500, 504}

\* The keywords the message `HTTP Error: <status> <statusText> - <body>` of
\* onopen may contain; they depend on the status text and the body.
OpenErrorWords == {{}, {"timeout"}, {"network"}}

\* The error onopen builds for a response that is not ok.
HttpOpenError(status, words) ==
    [cls |-> "Error", type |-> "none", name |-> "Error", words |-> words,
     cased |-> words, status |-> status, id |-> status]

\* The errors fetchEventSource may hand to onerror on its own account: a
\* failed fetch, and the abort it reports once the signal is aborted.
FetchFailure ==
    [cls |-> "TypeError", type |-> "none", name |-> "TypeError",
     words |-> {"failed to fetch"}, cased |-> {}, status |-> 0, id |-> 1]

AbortFailure ==
    [cls |-> "DOMException", type |-> "none", name |-> "AbortError",
     words |-> {"abort"}, cased |-> {}, status |-> 0, id |-> 2]

\* AbortController.abort(): the first call sets signal.aborted and dispatches
\* the abort event to the signal's listeners; later calls do nothing.
abortEveryTime(controller) ==
    [aborted |-> TRUE, events |-> controller.events + 1]

abort(controller) ==
    IF controller.aborted THEN controller
    ELSE [aborted |-> TRUE, events |-> controller.events + 1]

\* `session.done = Promise.all([done, queue.done])`: resolved when both are.
sessionDone == runDone /\ queue.done

InitSession ==
    /\ sessPc = "idle"
    /\ externalSignal \in {"none", "idle", "aborted"}
    /\ timeoutId \in {"none", "requested"}
    /\ listening = FALSE
    /\ abortController = [aborted |-> FALSE, events |-> 0]
    /\ settled = FALSE
    /\ outerPromise = Unsettled
    /\ runDone = FALSE
    /\ fetchResult = Unsettled
    /\ sourceError = undefined
    /\ cancelCalls = <<>>
    /\ sent = 0
    /\ openStatus = 0
    /\ variant \in {"session", "getOnly"}
    /\ requestMethod \in {"GET", "POST"}
    /\ connects = 0
    /\ queue = createAsyncQueue
    /\ produced = <<>>
    /\ settledAt = <<>>

\* request(requestConfig) up to `void run()`: the abort wiring, the timer,
\* the queue and the session, and the call of fetchEventSource.
StreamRequest ==
    /\ variant = "session"
    /\ sessPc = "idle"
    /\ sessPc' = "connecting"
    /\ connects' = connects + 1
    /\ abortController' = IF externalSignal = "aborted"
                             THEN abort(abortController) ELSE abortController
    /\ listening' = (externalSignal = "idle")
    /\ timeoutId' = IF timeoutId = "requested" THEN "armed" ELSE timeoutId
    /\ queue' = createAsyncQueue
    /\ UNCHANGED <<externalSignal, settled, outerPromise, runDone, fetchResult,
                   sourceError, cancelCalls, sent, openStatus, produced, settledAt,
                   variant, requestMethod>>

\* session.cancel(), called by a caller that holds the session.
Cancel ==
    /\ variant = "session"
    /\ outerPromise = Fulfilled
    /\ Len(cancelCalls) < MaxCancels
    /\ cancelCalls' = Append(cancelCalls, sessPc)
    /\ abortController' = abort(abortController)
    /\ UNCHANGED <<sessPc, externalSignal, timeoutId, listening, settled, outerPromise,
                   runDone, fetchResult, sourceError, sent, openStatus, queueVars,
                   variant, requestMethod, connects>>

\* The caller's signal becomes aborted; onExternalAbort runs if it is still
\* registered.
ExternalAbort ==
    /\ sessPc # "idle"
    /\ externalSignal = "idle"
    /\ externalSignal' = "aborted"
    /\ abortController' = IF listening THEN abort(abortController) ELSE abortController
    /\ listening' = FALSE
    /\ UNCHANGED <<sessPc, timeoutId, settled, outerPromise, runDone, fetchResult,
                   sourceError, cancelCalls, sent, openStatus, queueVars,
                   variant, requestMethod, connects>>

\* The timer of requestConfig.timeout fires.
Timeout ==
    /\ timeoutId = "armed"
    /\ timeoutId' = "fired"
    /\ abortController' = abort(abortController)
    /\ UNCHANGED <<sessPc, externalSignal, listening, settled, outerPromise, runDone,
                   fetchResult, sourceError, cancelCalls, sent, openStatus, queueVars,
                   variant, requestMethod, connects>>

\* onopen(response): a response that is not ok fails the queue, rejects the
\* outer promise and throws; an ok response resolves the outer promise.
SourceOpen ==
    /\ sessPc = "connecting"
    /\ \E status \in OpenStatuses, words \in OpenErrorWords :
        /\ openStatus' = status
        /\ IF ~ok(status)
           THEN LET err == HttpOpenError(status, words)
                IN /\ queue' = fail(queue, err)
                   /\ outerPromise' = IF ~settled THEN RejectedWith(err) ELSE outerPromise
                   /\ sourceError' = err
                   /\ sessPc' = "threw"
           ELSE /\ outerPromise' = IF ~settled THEN Fulfilled ELSE outerPromise
                /\ sessPc' = "open"
                /\ UNCHANGED <<queue, sourceError>>
    /\ settled' = TRUE
    /\ UNCHANGED <<externalSignal, timeoutId, listening, abortController, runDone,
                   fetchResult, cancelCalls, sent, produced, settledAt,
                   variant, requestMethod, connects>>

\* onmessage(event): the message is pushed; messages are numbered in order.
SourceMessage ==
    /\ sessPc = "open"
    /\ sent < MaxPushes
    /\ sent' = sent + 1
    /\ queue' = push(queue, sent + 1)
    /\ UNCHANGED <<sessPc, externalSignal, timeoutId, listening, abortController,
                   settled, outerPromise, runDone, fetchResult, sourceError,
                   cancelCalls, openStatus, produced, settledAt,
                   variant, requestMethod, connects>>

\* onclose(): the queue is closed; fetchEventSource then resolves.
SourceClose ==
    /\ sessPc = "open"
    /\ queue' = close(queue)
    /\ fetchResult' = Fulfilled
    /\ sessPc' = "settled"
    /\ UNCHANGED <<externalSignal, timeoutId, listening, abortController, settled,
                   outerPromise, runDone, sourceError, cancelCalls, sent, openStatus,
                   produced, settledAt,
                   variant, requestMethod, connects>>

\* onerror(error), for what onopen threw or for a failure of the source
\* itself: the queue is failed and the error is rethrown, so fetchEventSource
\* rejects with it.
SourceError ==
    /\ sessPc \in {"connecting", "open", "threw"}
    /\ \E err \in (IF sessPc = "threw" THEN {sourceError}
                   ELSE {FetchFailure} \cup
                        (IF abortController.aborted THEN {AbortFailure} ELSE {})) :
        /\ queue' = fail(queue, err)
        /\ fetchResult' = RejectedWith(err)
        /\ sourceError' = err
    /\ sessPc' = "settled"
    /\ UNCHANGED <<externalSignal, timeoutId, listening, abortController, settled,
                   outerPromise, runDone, cancelCalls, sent, openStatus,
                   produced, settledAt,
                   variant, requestMethod, connects>>

\* The source honours the abort: it stops and fetchEventSource resolves
\* without another callback.
SourceStops ==
    /\ sessPc \in {"connecting", "open", "threw"}
    /\ abortController.aborted
    /\ fetchResult' = Fulfilled
    /\ sessPc' = "settled"
    /\ UNCHANGED <<externalSignal, timeoutId, listening, abortController, settled,
                   outerPromise, runDone, sourceError, cancelCalls, sent, openStatus,
                   queueVars,
                   variant, requestMethod, connects>>

\* The catch and finally blocks of run().
RunEndsWithoutClose ==
    /\ sessPc = "settled"
    /\ sessPc' = "ended"
    /\ IF fetchResult.kind = "rejected"
       THEN /\ outerPromise' = IF ~settled THEN RejectedWith(fetchResult.error)
                                           ELSE outerPromise
            /\ settled' = TRUE
            /\ queue' = fail(queue, fetchResult.error)
       ELSE /\ queue' = queue
            /\ UNCHANGED <<outerPromise, settled>>
    /\ runDone' = TRUE
    /\ timeoutId' = IF timeoutId = "armed" THEN "cleared" ELSE timeoutId
    /\ listening' = FALSE
    /\ UNCHANGED <<externalSignal, abortController, fetchResult, sourceError,
                   cancelCalls, sent, openStatus, produced, settledAt,
                   variant, requestMethod, connects>>

RunEndsResettling ==
    /\ sessPc = "settled"
    /\ sessPc' = "ended"
    /\ IF fetchResult.kind = "rejected"
       THEN /\ outerPromise' = RejectedWith(fetchResult.error)
            /\ settled' = TRUE
            /\ queue' = close(fail(queue, fetchResult.error))
       ELSE /\ queue' = close(queue)
            /\ UNCHANGED <<outerPromise, settled>>
    /\ runDone' = TRUE
    /\ timeoutId' = IF timeoutId = "armed" THEN "cleared" ELSE timeoutId
    /\ listening' = FALSE
    /\ UNCHANGED <<externalSignal, abortController, fetchResult, sourceError,
                   cancelCalls, sent, openStatus, produced, settledAt,
                   variant, requestMethod, connects>>

RunEnds ==
    /\ sessPc = "settled"
    /\ sessPc' = "ended"
    /\ IF fetchResult.kind = "rejected"
       THEN /\ outerPromise' = IF ~settled THEN RejectedWith(fetchResult.error)
                                           ELSE outerPromise
            /\ settled' = TRUE
            /\ queue' = close(fail(queue, fetchResult.error))
       ELSE /\ queue' = close(queue)
            /\ UNCHANGED <<outerPromise, settled>>
    /\ runDone' = TRUE
    /\ timeoutId' = IF timeoutId = "armed" THEN "cleared" ELSE timeoutId
    /\ listening' = FALSE
    /\ UNCHANGED <<externalSignal, abortController, fetchResult, sourceError,
                   cancelCalls, sent, openStatus, produced, settledAt,
                   variant, requestMethod, connects>>

\* A caller that holds the session pulls from session.stream; it awaits the
\* settlement of a pull before it pulls again.
StreamPull ==
    /\ variant = "session"
    /\ outerPromise = Fulfilled
    /\ ~queue.resolveNext
    /\ Len(queue.results) < MaxPulls
    /\ queue' = next(queue)
    /\ UNCHANGED <<sessPc, externalSignal, timeoutId, listening, abortController,
                   settled, outerPromise, runDone, fetchResult, sourceError,
                   cancelCalls, sent, openStatus, produced, settledAt,
                   variant, requestMethod, connects>>

(***************************************************************************)
(* The GET-only createEventSourceAdapter (the second one of the source     *)
(* file): no session, no queue and no abort wiring; its onerror does not   *)
(* rethrow, so fetchEventSource connects again after an error.             *)
(***************************************************************************)
\* `requestConfig.method !== 'GET'` refuses the request.
supportsAnyMethod(method) == TRUE

supportsMethod(method) == method = "GET"

\* new RequestError('EventSource adapter only supports GET requests', UNKNOWN).
UnsupportedMethodError ==
    [cls |-> "RequestError", type |-> "UNKNOWN", name |-> "RequestError",
     words |-> {}, cased |-> {}, status |-> 0, id |-> 0]

\* request(requestConfig) up to the call of fetchEventSource.
GetOnlyRequest ==
    /\ variant = "getOnly"
    /\ sessPc = "idle"
    /\ IF supportsMethod(requestMethod)
       THEN /\ sessPc' = "getOnlyConnecting"
            /\ connects' = connects + 1
            /\ UNCHANGED outerPromise
       ELSE /\ sessPc' = "refused"
            /\ outerPromise' = RejectedWith(UnsupportedMethodError)
            /\ UNCHANGED connects
    /\ UNCHANGED <<externalSignal, timeoutId, listening, abortController, settled,
                   runDone, fetchResult, sourceError, cancelCalls, sent, openStatus,
                   variant, requestMethod, queueVars>>

\* onopen(response): the first one resolves the outer promise, whatever the
\* status.
GetOnlyOpen ==
    /\ sessPc = "getOnlyConnecting"
    /\ \E status \in OpenStatuses : openStatus' = status
    /\ outerPromise' = IF ~settled THEN Fulfilled ELSE outerPromise
    /\ settled' = TRUE
    /\ sessPc' = "getOnlyOpen"
    /\ UNCHANGED <<externalSignal, timeoutId, listening, abortController, runDone,
                   fetchResult, sourceError, cancelCalls, sent, variant,
                   requestMethod, connects, queueVars>>

\* onmessage(event): only the onMessage listener is told.
GetOnlyMessage ==
    /\ sessPc = "getOnlyOpen"
    /\ sent < MaxPushes
    /\ sent' = sent + 1
    /\ UNCHANGED <<sessPc, externalSignal, timeoutId, listening, abortController,
                   settled, outerPromise, runDone, fetchResult, sourceError,
                   cancelCalls, openStatus, variant, requestMethod, connects,
                   queueVars>>

\* onerror(error): the first settlement rejects the outer promise with the
\* normalized error; onerror returns, so the source connects again.
GetOnlyError ==
    /\ sessPc \in {"getOnlyConnecting", "getOnlyOpen"}
    /\ connects < MaxConnects
    /\ sourceError' = normalizeError(FetchFailure)
    /\ outerPromise' = IF ~settled THEN RejectedWith(sourceError') ELSE outerPromise
    /\ settled' = TRUE
    /\ sessPc' = "getOnlyConnecting"
    /\ connects' = connects + 1
    /\ UNCHANGED <<externalSignal, timeoutId, listening, abortController, runDone,
                   fetchResult, cancelCalls, sent, openStatus, variant,
                   requestMethod, queueVars>>

\* onclose(): only the onClose listener is told.
GetOnlyClose ==
    /\ sessPc = "getOnlyOpen"
    /\ sessPc' = "getOnlyClosed"
    /\ UNCHANGED <<externalSignal, timeoutId, listening, abortController, settled,
                   outerPromise, runDone, fetchResult, sourceError, cancelCalls,
                   sent, openStatus, variant, requestMethod, connects, queueVars>>

(***************************************************************************)
(* request() of the fetch adapter (fetch.ts).  fetchFn is the environment: *)
(* it resolves with a response or rejects, with the abort exception only   *)
(* once the signal it was given is aborted.  The caller's abort, the timer *)
(* and the settlement of fetchFn are separate tasks of the event loop, and *)
(* request() resumes in a task after the settlement.  Interceptors are     *)
(* optional and taken as absent.                                           *)
(***************************************************************************)
\* new AbortError('Request aborted by user', ...)
UserAbortError ==
    [cls |-> "RequestError", type |-> "ABORTED", name |-> "AbortError",
     words |-> {"abort", "by user"}, cased |-> {}, status |-> 0, id |-> 0]

\* new AbortError('Request aborted', ...)
PlainAbortError ==
    [cls |-> "RequestError", type |-> "ABORTED", name |-> "AbortError",
     words |-> {"abort"}, cased |-> {}, status |-> 0, id |-> 0]

\* new TimeoutError(`Request timeout after ${timeout}ms`, ...)
RequestTimeoutError ==
    [cls |-> "RequestError", type |-> "TIMEOUT", name |-> "TimeoutError",
     words |-> {"timeout"}, cased |-> {}, status |-> 0, id |-> 0]

\* new HttpError(`HTTP Error: ...`, response.status, ...)
ResponseHttpError(status) ==
    [cls |-> "RequestError", type |-> "HTTP", name |-> "HttpError",
     words |-> {}, cased |-> {}, status |-> status, id |-> 0]

\* new ParseError('Failed to parse response body', ...)
BodyParseError ==
    [cls |-> "RequestError", type |-> "PARSE", name |-> "ParseError",
     words |-> {}, cased |-> {}, status |-> 0, id |-> 0]

\* new NetworkError(error.message || 'Network error', ..., error)
TransportNetworkError(err) ==
    [cls |-> "RequestError", type |-> "NETWORK", name |-> "NetworkError",
     words |-> err.words, cased |-> err.cased, status |-> 0, id |-> err.id]

\* The settlements of the promise of fetchFn.
NoOutcome == [kind |-> "pending", status |-> 0, parses |-> FALSE, error |-> undefined]
ResponseOutcome(status, parses) ==
    [kind |-> "response", status |-> status, parses |-> parses, error |-> undefined]
RejectionOutcome(err) ==
    [kind |-> "rejected", status |-> 0, parses |-> FALSE, error |-> err]

ResponseStatuses == {200, 500}

\* `if (userSignal?.aborted)` before anything is set up.
alreadyAbortedIgnored(signal) == FALSE

alreadyAborted(signal) == signal = "aborted"

\* The catch block of request(): what it throws for what the try block threw.
catchBlock(error, signal, timer) ==
    IF error.cls = "RequestError" /\ error.type \in {"HTTP", "PARSE"} THEN error
    ELSE IF error.cls = "DOMException" /\ error.name = "AbortError" THEN
        IF signal = "aborted" THEN UserAbortError
        ELSE IF timer # "none" THEN RequestTimeoutError
        ELSE PlainAbortError
    ELSE IF error.cls = "TypeError" THEN TransportNetworkError(error)
    ELSE normalizeError(error)

InitFetch ==
    /\ fetchPc = "idle"
    /\ userSignal \in {"none", "idle", "aborted"}
    /\ fetchTimer \in {"none", "requested"}
    /\ internalAbortController = "none"
    /\ userListener = FALSE
    /\ fetchCalls = 0
    /\ causes = <<>>
    /\ fetchOutcome = NoOutcome
    /\ fetchReturn = Unsettled

\* request(requestConfig) up to `await fetchFn(url, fetchConfig)`.
FetchRequest ==
    /\ fetchPc = "idle"
    /\ IF alreadyAborted(userSignal)
       THEN /\ fetchPc' = "done"
            /\ fetchReturn' = RejectedWith(UserAbortError)
            /\ UNCHANGED <<fetchTimer, internalAbortController, userListener,
                           fetchCalls>>
       ELSE /\ internalAbortController' =
                  IF userSignal # "none" \/ fetchTimer = "requested"
                      THEN "idle" ELSE "none"
            /\ userListener' = (userSignal # "none")
            /\ fetchTimer' = IF fetchTimer = "requested" THEN "armed" ELSE fetchTimer
            /\ fetchCalls' = fetchCalls + 1
            /\ fetchPc' = "awaiting"
            /\ UNCHANGED fetchReturn
    /\ UNCHANGED <<userSignal, causes, fetchOutcome>>

\* The caller aborts its signal while the request is under way; the listener
\* aborts the internal controller.
UserAborts ==
    /\ fetchPc \in {"awaiting", "settled"}
    /\ userSignal = "idle"
    /\ userSignal' = "aborted"
    /\ internalAbortController' =
          IF userListener THEN "aborted" ELSE internalAbortController
    /\ userListener' = FALSE
    /\ causes' = Append(causes, "user")
    /\ UNCHANGED <<fetchPc, fetchTimer, fetchCalls, fetchOutcome, fetchReturn>>

\* The timer of processedConfig.timeout fires.
TimerFires ==
    /\ fetchTimer = "armed"
    /\ fetchTimer' = "fired"
    /\ internalAbortController' = "aborted"
    /\ causes' = Append(causes, "timeout")
    /\ UNCHANGED <<fetchPc, userSignal, userListener, fetchCalls, fetchOutcome,
                   fetchReturn>>

\* fetchFn resolves with a response, whose body can be parsed or not.
TransportResponds ==
    /\ fetchPc = "awaiting"
    /\ \E status \in ResponseStatuses, parses \in BOOLEAN :
          fetchOutcome' = ResponseOutcome(status, parses)
    /\ fetchPc' = "settled"
    /\ UNCHANGED <<userSignal, fetchTimer, internalAbortController, userListener,
                   fetchCalls, causes, fetchReturn>>

\* fetchFn rejects: with a failure of its own or, once its signal is
\* aborted, with the abort exception.
TransportRejects ==
    /\ fetchPc = "awaiting"
    /\ \E err \in {FetchFailure, PlainError(1)} \cup
                  (IF internalAbortController = "aborted" THEN {AbortFailure} ELSE {}) :
          fetchOutcome' = RejectionOutcome(err)
    /\ fetchPc' = "settled"
    /\ UNCHANGED <<userSignal, fetchTimer, internalAbortController, userListener,
                   fetchCalls, causes, fetchReturn>>

\* request() resumes after the await: the rest of the try block, the catch
\* block and the finally block.
FetchReturns ==
    /\ fetchPc = "settled"
    /\ LET caught ==
              IF fetchOutcome.kind = "rejected" THEN fetchOutcome.error
              ELSE IF ~ok(fetchOutcome.status)
                  THEN ResponseHttpError(fetchOutcome.status)
              ELSE IF ~fetchOutcome.parses THEN BodyParseError
              ELSE undefined
       IN fetchReturn' = IF truthy(caught)
                            THEN RejectedWith(catchBlock(caught, userSignal, fetchTimer))
                            ELSE Fulfilled
    /\ fetchTimer' = IF fetchTimer = "armed" THEN "cleared" ELSE fetchTimer
    /\ fetchPc' = "done"
    /\ UNCHANGED <<userSignal, internalAbortController, userListener, fetchCalls,
                   causes, fetchOutcome>>

(***************************************************************************)
(* cacheMiddleware (cacheMiddleware.ts).  The store is one Map of the      *)
(* module, shared by every call; a call is suspended while it awaits       *)
(* next(), and other calls run meanwhile.  Every call has a context of its *)
(* own, without a response at first.  Responses are numbered as the        *)
(* downstream produces them.                                               *)
(***************************************************************************)
\* ctx.request.params: not given, or an object whose keys are listed in
\* insertion order.
NoParams == [given |-> FALSE, keys |-> <<>>]

CacheRequests ==
    {[method |-> "GET", url |-> "/x", params |-> [given |-> TRUE, keys |-> <<"a", "b">>]],
     [method |-> "GET", url |-> "/x", params |-> [given |-> TRUE, keys |-> <<"b", "a">>]],
     [method |-> "GET", url |-> "/y", params |-> NoParams],
     [method |-> "POST", url |-> "/y", params |-> NoParams]}

\* JSON.stringify(params || {}): the text lists the keys in insertion order.
stringify(params) == IF params.given THEN params.keys ELSE <<>>

\* url + JSON.stringify(params || {})
cacheKeyUrlOnly(request) == <<request.url, <<>>>>

cacheKey(request) == <<request.url, stringify(request.params)>>

CacheKeys == {cacheKey(r) : r \in CacheRequests}

InitCache ==
    /\ cacheStore = [k \in CacheKeys |-> 0]
    /\ cacheCalls = <<>>
    /\ cacheClock = 0
    /\ responses = 0

\* cacheMiddleware(ctx, next) up to its return on a hit or to its call of
\* next().
CacheEnter ==
    /\ Len(cacheCalls) < MaxCacheCalls
    /\ cacheClock' = cacheClock + 1
    /\ \E request \in CacheRequests :
          LET hit == request.method = "GET" /\ cacheStore[cacheKey(request)] # 0
          IN cacheCalls' = Append(cacheCalls,
                [request |-> request,
                 entered |-> cacheClock',
                 finished |-> IF hit THEN cacheClock' ELSE 0,
                 invoked |-> ~hit,
                 threw |-> FALSE,
                 response |-> IF hit THEN cacheStore[cacheKey(request)] ELSE 0])
    /\ UNCHANGED <<cacheStore, responses>>

CacheNextReturnsStoringAll ==
    /\ \E i \in 1 .. Len(cacheCalls), responded \in BOOLEAN :
          /\ cacheCalls[i].finished = 0
          /\ cacheClock' = cacheClock + 1
          /\ responses' = IF responded THEN responses + 1 ELSE responses
          /\ cacheCalls' = [cacheCalls EXCEPT
                ![i].finished = cacheClock',
                ![i].response = IF responded THEN responses' ELSE 0]
          /\ cacheStore' =
                IF responded
                    THEN [cacheStore EXCEPT ![cacheKey(cacheCalls[i].request)] = responses']
                    ELSE cacheStore

\* next() resolves for a suspended call, having set ctx.response or not; a
\* response of a GET is stored.
CacheNextReturns ==
    /\ \E i \in 1 .. Len(cacheCalls), responded \in BOOLEAN :
          /\ cacheCalls[i].finished = 0
          /\ cacheClock' = cacheClock + 1
          /\ responses' = IF responded THEN responses + 1 ELSE responses
          /\ cacheCalls' = [cacheCalls EXCEPT
                ![i].finished = cacheClock',
                ![i].response = IF responded THEN responses' ELSE 0]
          /\ cacheStore' =
                IF responded /\ cacheCalls[i].request.method = "GET"
                    THEN [cacheStore EXCEPT ![cacheKey(cacheCalls[i].request)] = responses']
                    ELSE cacheStore

\* next() rejects for a suspended call: the middleware rejects with it.
CacheNextThrows ==
    /\ \E i \in 1 .. Len(cacheCalls) :
          /\ cacheCalls[i].finished = 0
          /\ cacheClock' = cacheClock + 1
          /\ cacheCalls' = [cacheCalls EXCEPT ![i].finished = cacheClock',
                                              ![i].threw = TRUE]
    /\ UNCHANGED <<cacheStore, responses>>

(***************************************************************************)
(* The middleware of createRetryMiddleware (retryMiddleware.ts).  next()   *)
(* is the environment: it throws, or it returns; the finalHandler of the   *)
(* client sets ctx.error before it throws, a middleware that throws does   *)
(* not.  The k-th call of next() throws error k.                           *)
(***************************************************************************)
MwDelays == {0, 200}

InitRetryMw ==
    /\ mwOptions \in [retries : 0 .. MaxMwRetries, delay : MwDelays]
    /\ mwPc = "idle"
    /\ mwI = 0
    /\ mwLastError = undefined
    /\ mwCtxError = FALSE
    /\ mwCalls = 0
    /\ mwSleeps = <<>>
    /\ mwAllThrew = TRUE
    /\ mwResult = Unsettled

\* `i < retries && delay > 0`: a delay is waited before the next attempt.
waitsAfterLast(i, opts) == opts.delay > 0

waits(i, opts) == i < opts.retries /\ opts.delay > 0

\* The loop goes on with i, lastError being err: the next call of next(), or
\* the end of the loop and `if (lastError) throw lastError`.
LoopFrom(i, err) ==
    /\ mwI' = i
    /\ IF i <= mwOptions.retries
       THEN /\ mwPc' = "calling"
            /\ mwCalls' = mwCalls + 1
            /\ UNCHANGED mwResult
       ELSE /\ mwPc' = "done"
            /\ mwResult' = IF truthy(err) THEN RejectedWith(err) ELSE Fulfilled
            /\ UNCHANGED mwCalls

\* The middleware is called and enters the loop.
MwCalled ==
    /\ mwPc = "idle"
    /\ LoopFrom(0, mwLastError)
    /\ UNCHANGED <<mwOptions, mwLastError, mwCtxError, mwSleeps, mwAllThrew>>

\* next() throws: the catch block.
MwNextThrows ==
    /\ mwPc = "calling"
    /\ mwLastError' = PlainError(mwCalls)
    /\ mwCtxError' \in {mwCtxError, TRUE}
    /\ IF waits(mwI, mwOptions)
       THEN /\ mwPc' = "sleeping"
            /\ mwSleeps' = Append(mwSleeps, mwI)
            /\ UNCHANGED <<mwI, mwCalls, mwResult>>
       ELSE /\ LoopFrom(mwI + 1, PlainError(mwCalls))
            /\ UNCHANGED mwSleeps
    /\ UNCHANGED <<mwOptions, mwAllThrew>>

\* next() returns: `if (!ctx.error) return`, else the loop goes on.
MwNextReturns ==
    /\ mwPc = "calling"
    /\ mwAllThrew' = FALSE
    /\ IF ~mwCtxError
       THEN /\ mwPc' = "done"
            /\ mwResult' = Fulfilled
            /\ UNCHANGED <<mwI, mwCalls>>
       ELSE LoopFrom(mwI + 1, mwLastError)
    /\ UNCHANGED <<mwOptions, mwLastError, mwCtxError, mwSleeps>>

\* The delay has been waited.
MwDelayElapsed ==
    /\ mwPc = "sleeping"
    /\ LoopFrom(mwI + 1, mwLastError)
    /\ UNCHANGED <<mwOptions, mwLastError, mwCtxError, mwSleeps, mwAllThrew>>

(***************************************************************************)
(* The middleware of createThrottleMiddleware.  Time is Date.now() in      *)
(* milliseconds from the creation of the middleware; a timer fires when it *)
(* is due or later.  next() is the environment: it resolves or rejects.    *)
(***************************************************************************)
ThIntervals == {2, 3}

\* A call that has not been admitted has no admission time.
NotAdmitted == 0 - 1

InitThrottle ==
    /\ thOptions \in [limit : 1 .. MaxLimit, interval : ThIntervals]
    /\ now = 0
    /\ timestamps = <<>>
    /\ thQueue = <<>>
    /\ thCalls = <<>>
    /\ wakeTimers = <<>>

\* clean(): timestamps.filter(ts => now - ts < interval)
cleanEverything(stamps, t, interval) == <<>>

clean(stamps, t, interval) == SelectSeq(stamps, LAMBDA ts : t - ts < interval)

\* The admissions made in the last interval milliseconds, counted from the
\* calls themselves.
RecentAdmissions ==
    Cardinality({i \in 1 .. Len(thCalls) :
                    /\ thCalls[i].admittedAt # NotAdmitted
                    /\ now - thCalls[i].admittedAt < thOptions.interval})

\* Time passes.
Tick ==
    /\ now < MaxTime
    /\ now' = now + 1
    /\ UNCHANGED <<thOptions, timestamps, thQueue, thCalls, wakeTimers>>

\* The middleware is called: tryRequest() admits the call, which then calls
\* next(), or puts it in the queue.
ThrottleCalled ==
    /\ Len(thCalls) < MaxThCalls
    /\ LET cleaned == clean(timestamps, now, thOptions.interval)
           admit == Len(cleaned) < thOptions.limit
       IN /\ timestamps' = IF admit THEN Append(cleaned, now) ELSE cleaned
          /\ thQueue' = IF admit THEN thQueue ELSE Append(thQueue, Len(thCalls) + 1)
          /\ thCalls' = Append(thCalls,
                [state |-> IF admit THEN "admitted" ELSE "waiting",
                 arrivedAt |-> now,
                 recent |-> RecentAdmissions,
                 admittedAt |-> IF admit THEN now ELSE NotAdmitted])
    /\ UNCHANGED <<thOptions, now, wakeTimers>>

\* next() resolves for an admitted call: the wake-up timer is set.
ThrottleNextResolves ==
    /\ \E i \in 1 .. Len(thCalls) :
          /\ thCalls[i].state = "admitted"
          /\ thCalls' = [thCalls EXCEPT ![i].state = "done"]
    /\ wakeTimers' = Append(wakeTimers, now + thOptions.interval)
    /\ UNCHANGED <<thOptions, now, timestamps, thQueue>>

\* next() rejects for an admitted call: the middleware rejects and sets no
\* timer.
ThrottleNextRejects ==
    /\ \E i \in 1 .. Len(thCalls) :
          /\ thCalls[i].state = "admitted"
          /\ thCalls' = [thCalls EXCEPT ![i].state = "failed"]
    /\ UNCHANGED <<thOptions, now, timestamps, thQueue, wakeTimers>>

\* A wake-up timer fires: clean(), then the calls at the head of the queue
\* are admitted while timestamps.length < limit.
WakeUp ==
    /\ \E k \in 1 .. Len(wakeTimers) :
          /\ wakeTimers[k] <= now
          /\ wakeTimers' = [j \in 1 .. Len(wakeTimers) - 1 |->
                                IF j < k THEN wakeTimers[j] ELSE wakeTimers[j + 1]]
    /\ LET cleaned == clean(timestamps, now, thOptions.interval)
           room == thOptions.limit - Len(cleaned)
           woken == IF room <= 0 THEN 0 ELSE Min(Len(thQueue), room)
       IN /\ timestamps' = cleaned \o [j \in 1 .. woken |-> now]
          /\ thQueue' = SubSeq(thQueue, woken + 1, Len(thQueue))
          /\ thCalls' = [i \in 1 .. Len(thCalls) |->
                            IF \E j \in 1 .. woken : thQueue[j] = i
                                THEN [thCalls[i] EXCEPT !.state = "admitted",
                                                        !.admittedAt = now]
                                ELSE thCalls[i]]
    /\ UNCHANGED <<thOptions, now>>

(***************************************************************************)
(* client.request (httpClient.ts) around the dispatch: finalHandler calls  *)
(* the adapter, which may be decorated with retries and rejects with what  *)
(* the transport threw; after the dispatch the response is looked at.      *)
(***************************************************************************)
\* What adapter.request rejects with: raw failures of the transport and an
\* error that is typed already.
AdapterFailures ==
    {FetchFailure, AbortFailure, PlainError(0),
     [TaxonomyError("HTTP", PlainError(0)) EXCEPT !.status = 500]}

InitClient ==
    /\ adapterFailure = undefined
    /\ requestResult = Unsettled

\* finalHandler of the client: the adapter call resolves (ctx.response is
\* set) or rejects (ctx.error is set to the normalized error and thrown).
FinalHandler ==
    /\ dispatchPc = "running"
    /\ dir = "down"
    /\ pos = Len(chain) + 1
    /\ log' = Append(log, Event("h", 0))
    /\ \/ /\ ctx' = [ctx EXCEPT !.response = "set"]
          /\ UNCHANGED <<exc, adapterFailure>>
       \/ /\ \E err \in AdapterFailures : adapterFailure' = err
          /\ ctx' = [ctx EXCEPT !.error = [origin |-> 0, seg |-> "h"]]
          /\ exc' = [origin |-> 0, seg |-> "h"]
    /\ pos' = pos - 1
    /\ dir' = "up"
    /\ UNCHANGED <<middlewares, chain, dispatchPc, dispatchResult, requestResult>>

\* The value an exception in flight is: what finalHandler threw is the
\* normalized failure of the adapter, what a middleware threw is an Error
\* of its own.
thrown(e) ==
    IF e.seg = "h" THEN normalizeError(adapterFailure) ELSE PlainError(e.origin)

\* new RequestError('No response received from adapter', UNKNOWN)
NoResponseError ==
    [cls |-> "RequestError", type |-> "UNKNOWN", name |-> "RequestError",
     words |-> {}, cased |-> {}, status |-> 0, id |-> 0]

RequestSettlesUnchecked ==
    /\ dispatchPc = "done"
    /\ requestResult = Unsettled
    /\ requestResult' =
          IF dispatchResult.kind = "rejected"
              THEN RejectedWith(thrown(dispatchResult.error))
          ELSE Fulfilled
    /\ UNCHANGED <<engineVars, adapterFailure>>

\* request() after `await engine.dispatch(...)`: a rejection of the dispatch
\* passes through; a dispatch that left no response is an error.
RequestSettles ==
    /\ dispatchPc = "done"
    /\ requestResult = Unsettled
    /\ requestResult' =
          IF dispatchResult.kind = "rejected"
              THEN RejectedWith(thrown(dispatchResult.error))
          ELSE IF ctx.response = "unset" THEN RejectedWith(NoResponseError)
          ELSE Fulfilled
    /\ UNCHANGED <<engineVars, adapterFailure>>

(***************************************************************************)
(* Specifications.  A component that a specification does not run stays in *)
(* its idle state.                                                         *)
(***************************************************************************)
IdleRetry ==
    /\ options = [maxRetries |-> 0, backoff |-> "linear", baseDelay |-> 0,
                  maxDelay |-> 0, retryableStatusCodes |-> "default",
                  shouldRetry |-> "none", onRetry |-> FALSE]
    /\ retryPc = "unused"
    /\ attempt = 0
    /\ lastError = NoError
    /\ calls = 0
    /\ trace = <<>>
    /\ observed = <<>>
    /\ delay = 0
    /\ slept = <<>>
    /\ signalAborted = FALSE
    /\ outcome = Pending
    /\ history = [allRetryable |-> TRUE, all4xx |-> TRUE, allUnlisted4xx |-> TRUE]

IdleDelay ==
    /\ dIn = [attempt |-> 0, backoff |-> "linear", baseDelay |-> 0, maxDelay |-> 0]
    /\ dOut = NotCalled

IdleEngine ==
    /\ middlewares = <<>>
    /\ chain = <<>>
    /\ dispatchPc = "unused"
    /\ pos = 0
    /\ dir = "down"
    /\ exc = NoExc
    /\ log = <<>>
    /\ ctx = [response |-> "unset", error |-> NoExc]
    /\ dispatchResult = Pending

IdleQueue ==
    /\ queue = [createAsyncQueue EXCEPT !.isClosed = TRUE, !.done = TRUE]
    /\ produced = <<>>
    /\ settledAt = <<>>

IdleSession ==
    /\ sessPc = "unused"
    /\ externalSignal = "none"
    /\ timeoutId = "none"
    /\ listening = FALSE
    /\ abortController = [aborted |-> FALSE, events |-> 0]
    /\ settled = FALSE
    /\ outerPromise = Unsettled
    /\ runDone = FALSE
    /\ fetchResult = Unsettled
    /\ sourceError = undefined
    /\ cancelCalls = <<>>
    /\ sent = 0
    /\ openStatus = 0
    /\ variant = "session"
    /\ requestMethod = "GET"
    /\ connects = 0

IdleCursors ==
    /\ cursors = 0
    /\ pullBy = <<>>
    /\ holder = 0
    /\ received = <<>>

IdleNormalize ==
    /\ raw = undefined
    /\ normalized = undefined

IdleClient ==
    /\ adapterFailure = undefined
    /\ requestResult = Unsettled

IdleFetch ==
    /\ fetchPc = "unused"
    /\ userSignal = "none"
    /\ fetchTimer = "none"
    /\ internalAbortController = "none"
    /\ userListener = FALSE
    /\ fetchCalls = 0
    /\ causes = <<>>
    /\ fetchOutcome = NoOutcome
    /\ fetchReturn = Unsettled

IdleCache ==
    /\ cacheStore = [k \in CacheKeys |-> 0]
    /\ cacheCalls = <<>>
    /\ cacheClock = 0
    /\ responses = 0

IdleRetryMw ==
    /\ mwOptions = [retries |-> 0, delay |-> 0]
    /\ mwPc = "unused"
    /\ mwI = 0
    /\ mwLastError = undefined
    /\ mwCtxError = FALSE
    /\ mwCalls = 0
    /\ mwSleeps = <<>>
    /\ mwAllThrew = TRUE
    /\ mwResult = Unsettled

IdleThrottle ==
    /\ thOptions = [limit |-> 0, interval |-> 0]
    /\ now = 0
    /\ timestamps = <<>>
    /\ thQueue = <<>>
    /\ thCalls = <<>>
    /\ wakeTimers = <<>>

NextRetry ==
    \/ Request /\ UNCHANGED outsideRetry
    \/ TransportResolve /\ UNCHANGED outsideRetry
    \/ TransportReject /\ UNCHANGED outsideRetry
    \/ SleepElapsed /\ UNCHANGED outsideRetry
    \/ AbortSignal /\ UNCHANGED outsideRetry

RetryInit == InitRetry /\ IdleDelay /\ IdleEngine /\ IdleQueue /\ IdleSession /\ IdleCursors /\ IdleNormalize /\ IdleClient /\ IdleFetch /\ IdleCache /\ IdleRetryMw /\ IdleThrottle

SpecRetry == RetryInit /\ [][NextRetry]_vars

NextDelay ==
    \/ CalculateDelay /\ UNCHANGED outsideDelay

DelayInit == InitDelay /\ IdleRetry /\ IdleEngine /\ IdleQueue /\ IdleSession /\ IdleCursors /\ IdleNormalize /\ IdleClient /\ IdleFetch /\ IdleCache /\ IdleRetryMw /\ IdleThrottle

NextDispatch ==
    \/ Use /\ UNCHANGED clientVars /\ UNCHANGED outsideDispatch
    \/ Dispatch /\ UNCHANGED clientVars /\ UNCHANGED outsideDispatch
    \/ EnterMiddleware /\ UNCHANGED clientVars /\ UNCHANGED outsideDispatch
    \/ FinalHandler /\ UNCHANGED outsideDispatch
    \/ ResumeMiddleware /\ UNCHANGED clientVars /\ UNCHANGED outsideDispatch
    \/ DispatchSettles /\ UNCHANGED clientVars /\ UNCHANGED outsideDispatch
    \/ RequestSettles /\ UNCHANGED outsideDispatch

DispatchInit == InitEngine /\ InitClient /\ IdleRetry /\ IdleDelay /\ IdleQueue /\ IdleSession /\ IdleCursors /\ IdleNormalize /\ IdleFetch /\ IdleCache /\ IdleRetryMw /\ IdleThrottle

SpecDispatch == DispatchInit /\ [][NextDispatch]_vars

SpecDelay == DelayInit /\ [][NextDelay]_vars

NextQueue ==
    \/ Push /\ UNCHANGED outsideQueue
    \/ Close /\ UNCHANGED outsideQueue
    \/ Fail /\ UNCHANGED outsideQueue
    \/ Pull /\ UNCHANGED outsideQueue

QueueInit == InitQueue /\ IdleRetry /\ IdleDelay /\ IdleEngine /\ IdleSession /\ IdleCursors /\ IdleNormalize /\ IdleClient /\ IdleFetch /\ IdleCache /\ IdleRetryMw /\ IdleThrottle

SpecQueue == QueueInit /\ [][NextQueue]_vars

NextSession ==
    \/ StreamRequest /\ UNCHANGED outsideSession
    \/ Cancel /\ UNCHANGED outsideSession
    \/ ExternalAbort /\ UNCHANGED outsideSession
    \/ Timeout /\ UNCHANGED outsideSession
    \/ SourceOpen /\ UNCHANGED outsideSession
    \/ SourceMessage /\ UNCHANGED outsideSession
    \/ SourceClose /\ UNCHANGED outsideSession
    \/ SourceError /\ UNCHANGED outsideSession
    \/ SourceStops /\ UNCHANGED outsideSession
    \/ RunEnds /\ UNCHANGED outsideSession
    \/ StreamPull /\ UNCHANGED outsideSession
    \/ GetOnlyRequest /\ UNCHANGED outsideSession
    \/ GetOnlyOpen /\ UNCHANGED outsideSession
    \/ GetOnlyMessage /\ UNCHANGED outsideSession
    \/ GetOnlyError /\ UNCHANGED outsideSession
    \/ GetOnlyClose /\ UNCHANGED outsideSession

SessionInit == InitSession /\ IdleRetry /\ IdleDelay /\ IdleEngine /\ IdleCursors /\ IdleNormalize /\ IdleClient /\ IdleFetch /\ IdleCache /\ IdleRetryMw /\ IdleThrottle

SpecSession == SessionInit /\ [][NextSession]_vars

\* run() resumes once fetchEventSource has settled, and a source whose abort
\* signal is aborted ends its run.
SpecSessionLive ==
    /\ SessionInit
    /\ [][NextSession]_vars
    /\ WF_vars(RunEnds /\ UNCHANGED outsideSession)
    /\ WF_vars(SourceStops /\ UNCHANGED outsideSession)

NextCursors ==
    \/ GetCursor /\ UNCHANGED outsideCursors
    \/ CursorPull /\ UNCHANGED outsideCursors
    \/ CursorPush /\ UNCHANGED outsideCursors
    \/ CursorClose /\ UNCHANGED outsideCursors
    \/ CursorFail /\ UNCHANGED outsideCursors

CursorsInit == InitCursors /\ IdleRetry /\ IdleDelay /\ IdleEngine /\ IdleSession /\ IdleNormalize /\ IdleClient /\ IdleFetch /\ IdleCache /\ IdleRetryMw /\ IdleThrottle

SpecCursors == CursorsInit /\ [][NextCursors]_vars

NextNormalize ==
    \/ Normalize /\ UNCHANGED outsideNormalize

NormalizeInit == InitNormalize /\ IdleRetry /\ IdleDelay /\ IdleEngine /\ IdleQueue /\ IdleSession /\ IdleCursors /\ IdleClient /\ IdleFetch /\ IdleCache /\ IdleRetryMw /\ IdleThrottle

SpecNormalize == NormalizeInit /\ [][NextNormalize]_vars

NextFetch ==
    \/ FetchRequest /\ UNCHANGED outsideFetch
    \/ UserAborts /\ UNCHANGED outsideFetch
    \/ TimerFires /\ UNCHANGED outsideFetch
    \/ TransportResponds /\ UNCHANGED outsideFetch
    \/ TransportRejects /\ UNCHANGED outsideFetch
    \/ FetchReturns /\ UNCHANGED outsideFetch

FetchInit == InitFetch /\ IdleRetry /\ IdleDelay /\ IdleEngine /\ IdleQueue /\ IdleSession /\ IdleCursors /\ IdleNormalize /\ IdleClient /\ IdleCache /\ IdleRetryMw /\ IdleThrottle

SpecFetch == FetchInit /\ [][NextFetch]_vars

NextCache ==
    \/ CacheEnter /\ UNCHANGED outsideCache
    \/ CacheNextReturns /\ UNCHANGED outsideCache
    \/ CacheNextThrows /\ UNCHANGED outsideCache

CacheInit == InitCache /\ IdleRetry /\ IdleDelay /\ IdleEngine /\ IdleQueue /\ IdleSession /\ IdleCursors /\ IdleNormalize /\ IdleClient /\ IdleFetch /\ IdleRetryMw /\ IdleThrottle

SpecCache == CacheInit /\ [][NextCache]_vars

NextRetryMw ==
    \/ MwCalled /\ UNCHANGED outsideRetryMw
    \/ MwNextThrows /\ UNCHANGED outsideRetryMw
    \/ MwNextReturns /\ UNCHANGED outsideRetryMw
    \/ MwDelayElapsed /\ UNCHANGED outsideRetryMw

RetryMwInit == InitRetryMw /\ IdleRetry /\ IdleDelay /\ IdleEngine /\ IdleQueue /\ IdleSession /\ IdleCursors /\ IdleNormalize /\ IdleClient /\ IdleFetch /\ IdleCache /\ IdleThrottle

SpecRetryMw == RetryMwInit /\ [][NextRetryMw]_vars

NextThrottle ==
    \/ Tick /\ UNCHANGED outsideThrottle
    \/ ThrottleCalled /\ UNCHANGED outsideThrottle
    \/ ThrottleNextResolves /\ UNCHANGED outsideThrottle
    \/ ThrottleNextRejects /\ UNCHANGED outsideThrottle
    \/ WakeUp /\ UNCHANGED outsideThrottle

ThrottleInit == InitThrottle /\ IdleRetry /\ IdleDelay /\ IdleEngine /\ IdleQueue /\ IdleSession /\ IdleCursors /\ IdleNormalize /\ IdleClient /\ IdleFetch /\ IdleCache /\ IdleRetryMw

SpecThrottle == ThrottleInit /\ [][NextThrottle]_vars

(***************************************************************************)
(* Claims about the retry decorator, checked under SpecRetry.              *)
(***************************************************************************)
Count(seq, e) == Cardinality({i \in DOMAIN seq : seq[i] = e})

DefaultPolicy == options.shouldRetry = "none" /\ options.retryableStatusCodes = "default"

\* The request ended by rethrowing e as soon as call number e.id had thrown
\* it: no later call, no observer call for it, no delay waited after it.
RethrownAtOnce(e) ==
    /\ retryPc = "done"
    /\ outcome = Rejected(e)
    /\ calls = e.id
    /\ Count(trace, "sleep") = e.id - 1
    /\ Count(trace, "onRetry") = (IF options.onRetry THEN e.id - 1 ELSE 0)
    /\ Len(observed) = Count(trace, "onRetry")
    /\ SubSeq(trace, Len(trace) - 2, Len(trace)) = <<"call", "fail", "throw">>

\* C3: with maxRetries = N the decorator never makes more than N+1 transport
\* calls; if k <= N calls fail (each retried) and call k+1 succeeds it has
\* made exactly k+1 calls and resolves with the value of call k+1; if every
\* call fails retryably it makes exactly N+1 calls and rejects with the
\* error thrown by the last call, unchanged.
C3_AttemptBudget ==
    /\ calls <= options.maxRetries + 1
    /\ (retryPc = "done" /\ outcome.kind = "resolved") =>
          /\ calls = Count(trace, "fail") + 1
          /\ Count(trace, "fail") <= options.maxRetries
          /\ outcome = Resolved(calls)
    /\ (retryPc = "done" /\ outcome.kind = "rejected" /\ history.allRetryable) =>
          /\ calls = options.maxRetries + 1
          /\ Count(trace, "fail") = calls
          /\ outcome = Rejected(lastError)
          /\ lastError.id = calls

C3_Witness ==
    /\ retryPc = "done"
    /\ outcome.kind = "resolved"
    /\ calls = 3
    /\ lastError.status = 500

\* C4 as stated: with the default options a transport whose every failure is
\* a 4xx-class HTTP error is called exactly once, for every 4xx status.
C4_Every4xxCalledOnce ==
    (DefaultPolicy /\ history.all4xx) => calls <= 1

\* C4 as amended: with the default options a transport whose every failure is
\* a 4xx-class HTTP error other than 408 and 429 is called exactly once and
\* the request rejects with that error at once.
C4_Unlisted4xxCalledOnce ==
    (DefaultPolicy /\ history.allUnlisted4xx) =>
        /\ calls <= 1
        /\ lastError # NoError => RethrownAtOnce(lastError)

C4_Witness ==
    /\ DefaultPolicy
    /\ options.maxRetries = 2
    /\ lastError.status = 404
    /\ retryPc = "done"
    /\ calls = 1

\* A retry of the failure lastError is under way: the delay before it is
\* being waited, or the call after it has been made.
Retried(e) ==
    \/ retryPc = "sleep" /\ calls = e.id
    \/ calls = e.id + 1

\* C5 as stated: with the default options an HTTP-kind failure with any
\* status >= 500 on a non-final attempt is retried.
C5_Every5xxRetried ==
    (DefaultPolicy /\ Is5xx(lastError) /\ lastError.id <= options.maxRetries)
        => Retried(lastError)

\* C5 as amended: with the default options an HTTP-kind failure with status
\* 500, 502, 503 or 504 on a non-final attempt is retried.
C5_Listed5xxRetried ==
    (DefaultPolicy /\ Is5xx(lastError) /\ lastError.status \in {500, 502, 503, 504}
        /\ lastError.id <= options.maxRetries)
        => Retried(lastError)

C5_Witness ==
    /\ DefaultPolicy
    /\ lastError.status = 503
    /\ lastError.id = 1
    /\ retryPc = "await"
    /\ calls = 2

\* C6 as stated: an attempt failing with an aborted-kind error ends the
\* request at once with that error, whatever the policy.
C6_AbortNeverRetried ==
    (isRequestError(lastError) /\ isAbortedError(lastError))
        => RethrownAtOnce(lastError)

\* C6 as amended: without a caller-supplied shouldRetry predicate, an attempt
\* failing with an aborted-kind error ends the request at once with that
\* error, whatever the remaining attempt budget.
C6_AbortNotRetriedByDefault ==
    (options.shouldRetry = "none" /\ isRequestError(lastError) /\ isAbortedError(lastError))
        => RethrownAtOnce(lastError)

C6_Witness ==
    /\ options.shouldRetry = "none"
    /\ options.maxRetries = 2
    /\ isAbortedError(lastError)
    /\ lastError.id = 2
    /\ retryPc = "done"

\* C7: once the signal of the request is aborted, a pending retry makes no
\* further call to the wrapped transport.
C7_NoCallAfterAbort ==
    [][(signalAborted /\ retryPc = "sleep") => calls' = calls]_vars

\* C8: a failure judged not retryable is rethrown at once: no further
\* transport call, no observer call for it, no delay waited, however many
\* attempts remain.
C8_NotRetryableRethrown ==
    (lastError # NoError
        /\ ~checkShouldRetry(lastError, lastError.id - 1, statusCodes(options),
                             options.shouldRetry))
        => RethrownAtOnce(lastError)

C8_Witness ==
    /\ lastError # NoError
    /\ ~checkShouldRetry(lastError, lastError.id - 1, statusCodes(options),
                         options.shouldRetry)
    /\ lastError.id = 2
    /\ options.maxRetries = 2
    /\ options.onRetry
    /\ retryPc = "done"

\* C9: with an observer configured, the n-th retry invokes it exactly once,
\* with the failure of call n and the number n, after the failure and before
\* the delay and the next call; it is not invoked for the failure that ends
\* the request, so there is one observer call less than transport calls.
C9_ObserverPerRetry ==
    options.onRetry =>
        /\ \A i \in DOMAIN observed : observed[i] = [error |-> i, attempt |-> i]
        /\ Len(observed) = Count(trace, "onRetry")
        /\ \A i \in DOMAIN trace :
              /\ trace[i] = "onRetry" =>
                    /\ trace[i - 1] = "fail"
                    /\ trace[i + 1] = "sleep"
              /\ trace[i] = "sleep" => trace[i - 1] = "onRetry"
              /\ (trace[i] = "call" /\ i > 1) =>
                    SubSeq(trace, i - 4, i - 1) = <<"fail", "onRetry", "sleep", "wake">>
        /\ retryPc = "sleep" =>
              /\ Len(observed) = calls
              /\ observed[calls].error = lastError.id
        /\ retryPc \in {"await", "done"} => Len(observed) = calls - 1

C9_Witness ==
    /\ options.onRetry
    /\ retryPc = "done"
    /\ Len(observed) = 2
    /\ calls = 3


\* The durations linear backoff prescribes for retries 1 .. n.
LinearDelays(n, baseDelay, maxDelay) ==
    [k \in 1 .. n |-> Min(baseDelay * k, maxDelay) * Scale]

\* C11: with backoff = linear the delay waited before retry number n is exactly
\* min(baseDelay * n, maxDelay), with no jitter; a request that succeeds on
\* transport call c has waited exactly c - 1 such delays, in order, and made
\* exactly c transport calls (failures on calls 1 and 2 with baseDelay = 100:
\* delays 100 then 200, three calls).
C11_LinearBackoff ==
    options.backoff = "linear" =>
        /\ slept = LinearDelays(Len(slept), options.baseDelay, options.maxDelay)
        /\ retryPc = "sleep" => Len(slept) = calls
        /\ outcome.kind = "resolved" =>
              /\ Len(slept) = calls - 1
              /\ outcome.value = calls
              /\ Count(trace, "call") = calls

\* Network failures on calls 1 and 2, success on call 3, maxRetries = 3 and
\* baseDelay = 100: the delays were 100 then 200.
C11_Witness ==
    /\ options.backoff = "linear" /\ options.maxRetries = 3
    /\ options.baseDelay = 100 /\ options.maxDelay = 30000
    /\ options.shouldRetry = "none"
    /\ history.allRetryable /\ lastError.type = "NETWORK"
    /\ outcome = Resolved(3) /\ calls = 3
    /\ slept = <<100 * Scale, 200 * Scale>>

\* A step in which the transport call of the current attempt fails.
AttemptFails ==
    /\ retryPc = "await"
    /\ retryPc' # "await"
    /\ outcome'.kind # "resolved"

\* C12: when a shouldRetry predicate is supplied, on every failure of a
\* non-final attempt the request is retried exactly when the predicate
\* returns true for (error, attempt); neither the taxonomy classification
\* nor the retryable-status set has a say.
C12_PredicateDecides ==
    [][(AttemptFails /\ options.shouldRetry # "none"
            /\ attempt < options.maxRetries)
        => ((retryPc' = "sleep")
              <=> customShouldRetry(options.shouldRetry, lastError', attempt))]_vars

\* Under the predicate that retries only status 418 and with the default
\* status set: the first failure was retried, and the second, a 503 on a
\* non-final attempt, was rethrown.
C12_Witness ==
    /\ options.shouldRetry = "teapot"
    /\ options.retryableStatusCodes = "default"
    /\ 418 \notin DEFAULT_RETRYABLE_STATUS_CODES
    /\ calls = 2 /\ Len(slept) = 1
    /\ attempt = 1 /\ attempt < options.maxRetries
    /\ retryPc = "done"
    /\ outcome.kind = "rejected" /\ Is5xx(outcome.error)
    /\ outcome.error.status = 503

(***************************************************************************)
(* Claims about calculateDelay, checked under SpecDelay.                   *)
(***************************************************************************)
\* C10: the computed delay never exceeds maxDelay * 1.25 with exponential
\* backoff and never exceeds maxDelay with linear backoff, for every attempt
\* index, baseDelay, maxDelay and jitter (so never more than 2500 for
\* baseDelay = 1000 and maxDelay = 2000).
C10_DelayCeiling ==
    dOut.called =>
        IF dIn.backoff = "exponential"
            THEN 4 * dOut.delay <= 5 * dIn.maxDelay * Scale
            ELSE dOut.delay <= dIn.maxDelay * Scale

C10_Witness ==
    /\ dOut.called
    /\ dIn = [attempt |-> 1, backoff |-> "exponential", baseDelay |-> 1000, maxDelay |-> 2000]
    /\ dOut.random = JitterSteps
    /\ dOut.delay = 2000 * Scale

(***************************************************************************)
(* Claims about the dispatch engine, checked under SpecDispatch.           *)
(***************************************************************************)
Logged(e) == \E k \in DOMAIN log : log[k] = e

IsPrefix(p, q) == Len(p) <= Len(q) /\ SubSeq(q, 1, Len(p)) = p

\* Registration order: the registered middleware, then the extra ones, are
\* numbered 1, 2, ... as they are added.
OnionOrder(n) ==
    [i \in 1 .. n |-> Event("pre", i)] \o <<Event("h", 0)>>
        \o [i \in 1 .. n |-> Event("post", n + 1 - i)]

EveryoneCallsNext ==
    \A i \in DOMAIN chain : chain[i].beh.pre = "next" /\ chain[i].beh.post = "return"

\* C1: when every middleware calls next() once and nothing throws, the
\* segments run in the order m1-pre, .., mn-pre, h, mn-post, .., m1-post
\* (for three middleware: m1-pre, m2-pre, m3-pre, h, m3-post, m2-post,
\* m1-post); h runs once and dispatch resolves.
C1_OnionOrder ==
    (dispatchPc \in {"running", "done"} /\ EveryoneCallsNext /\ ctx.error = NoExc) =>
        /\ IsPrefix(log, OnionOrder(Len(chain)))
        /\ dispatchPc = "done" =>
              /\ log = OnionOrder(Len(chain))
              /\ dispatchResult = Resolved(0)

C1_Witness ==
    /\ dispatchPc = "done"
    /\ Len(chain) = 3
    /\ EveryoneCallsNext
    /\ log = <<Event("pre", 1), Event("pre", 2), Event("pre", 3), Event("h", 0),
               Event("post", 3), Event("post", 2), Event("post", 1)>>

\* The middleware at place i of the chain was entered and threw before
\* calling next().
ThrewBeforeNext(i) ==
    /\ chain[i].beh.pre = "throw"
    /\ Logged(Event("pre", chain[i].id))

\* C2: if a middleware throws before calling next(), no later middleware and
\* not the terminal handler is entered; the exception reaches the middleware
\* before it at its await of next(), whose post segment runs only if it
\* catches; if no earlier middleware catches, dispatch rejects with that
\* same exception.
C2_ThrowStopsChain ==
    \A i \in DOMAIN chain : ThrewBeforeNext(i) =>
        /\ \A j \in DOMAIN chain : j > i => ~Logged(Event("pre", chain[j].id))
        /\ ~Logged(Event("h", 0))
        /\ ctx = [response |-> "unset", error |-> NoExc]
        /\ (i > 1 /\ pos < i - 1) => Logged(Event("rejects", chain[i - 1].id))
        /\ (i > 1 /\ Logged(Event("post", chain[i - 1].id))) =>
              /\ chain[i - 1].beh.onError = "catch"
              /\ \E k \in DOMAIN log :
                    /\ log[k] = Event("rejects", chain[i - 1].id)
                    /\ log[k + 1] = Event("post", chain[i - 1].id)
        /\ (dispatchPc = "done" /\ \A j \in 1 .. (i - 1) : chain[j].beh.onError = "propagate") =>
              dispatchResult = Rejected([origin |-> chain[i].id, seg |-> "pre"])

C2_Witness ==
    /\ dispatchPc = "done"
    /\ Len(chain) = 3
    /\ ThrewBeforeNext(2)
    /\ chain[1].beh.onError = "propagate"
    /\ dispatchResult = Rejected([origin |-> 2, seg |-> "pre"])

(***************************************************************************)
(* Claims about the stream queue, checked under SpecQueue.                 *)
(***************************************************************************)
\* The index of the first close() call in a list of producer calls, or one
\* past its end when there is none.
FirstClose(callList) ==
    IF \E i \in DOMAIN callList : callList[i].op = "close"
        THEN CHOOSE i \in DOMAIN callList :
                /\ callList[i].op = "close"
                /\ \A j \in 1 .. i - 1 : callList[j].op # "close"
        ELSE Len(callList) + 1

\* The messages pushed before the source closed, in push order.
RECURSIVE PushedValues(_)
PushedValues(callList) ==
    IF callList = <<>> THEN <<>>
    ELSE (IF Head(callList).op = "push" THEN <<Head(callList).value>> ELSE <<>>)
            \o PushedValues(Tail(callList))

PushedBeforeClose == PushedValues(SubSeq(produced, 1, FirstClose(produced) - 1))

\* The messages among a list of pull settlements, in order.
RECURSIVE Messages(_)
Messages(resultList) ==
    IF resultList = <<>> THEN <<>>
    ELSE (IF Head(resultList).kind = "value" THEN <<Head(resultList).value>> ELSE <<>>)
            \o Messages(Tail(resultList))

\* The source did not fail before it closed.
ClosedWithoutFailure ==
    \A i \in DOMAIN produced : produced[i].op = "fail" => FirstClose(produced) < i

\* C13: for a single consumer and any interleaving of pushes and pulls, the
\* pulls obtain exactly the messages pushed before the source closed, in push
\* order, with no loss or duplication, and then the completion marker: what has
\* been obtained is always a prefix of what was pushed before the close, a
\* pull stays suspended only while nothing is left to deliver, and the
\* completion marker comes only after every such message.
C13_StreamDelivery ==
    ClosedWithoutFailure =>
        /\ IsPrefix(Messages(queue.results), PushedBeforeClose)
        /\ \A i \in DOMAIN queue.results :
              /\ queue.results[i].kind # "reject"
              /\ queue.results[i].kind = "done" =>
                    /\ FirstClose(produced) <= Len(produced)
                    /\ Messages(SubSeq(queue.results, 1, i - 1)) = PushedBeforeClose
        /\ queue.resolveNext =>
              /\ FirstClose(produced) > Len(produced)
              /\ Messages(queue.results) = PushedBeforeClose
        /\ Messages(queue.results) \o queue.values = PushedBeforeClose

\* push a, push b, close: the pulls yield a, b, then the completion marker.
C13_Witness ==
    /\ produced = <<PushCall(1), PushCall(2), CloseCall>>
    /\ queue.results = <<ValueResult(1), ValueResult(2), DoneResult>>

Failed(q) == truthy(q.failure)

\* A step that is a pull (the producer made no call).
PullStep == produced' = produced /\ queue' # queue

\* A step in which the producer calls close() or fail().
TerminalCall ==
    /\ produced' # produced
    /\ produced'[Len(produced')].op \in {"close", "fail"}

\* C15: once the queue has entered the failure state with error e, the pull
\* suspended at that moment (if any) rejects with e, and every later pull
\* rejects at once with that same e, whatever push, close or fail calls follow.
C15_FailureSticky ==
    [][/\ Failed(queue) => queue'.failure = queue.failure
       /\ (Failed(queue) /\ PullStep) =>
              queue'.results = Append(queue.results, Rejection(queue.failure))
       /\ (Failed(queue) /\ ~PullStep) => queue'.results = queue.results
       /\ (~Failed(queue) /\ Failed(queue')) =>
              /\ produced' = Append(produced, FailCall(queue'.failure))
              /\ ~queue'.resolveNext
              /\ queue'.results =
                    IF queue.resolveNext
                        THEN Append(queue.results, Rejection(queue'.failure))
                        ELSE queue.results]_vars

\* A pull was suspended when the source failed with error 1; push, close and
\* fail with error 2 followed, and a pull made after them rejected with
\* error 1 again.
C15_Witness ==
    /\ Len(produced) = 4
    /\ produced[1] = FailCall(PlainError(1))
    /\ {produced[i].op : i \in 2 .. 4} = {"push", "close", "fail"}
    /\ \E i \in 2 .. 4 : produced[i] = FailCall(PlainError(2))
    /\ queue.results = <<Rejection(PlainError(1)), Rejection(PlainError(1))>>
    /\ settledAt = <<1, 4>>

\* C16: whenever unread messages are buffered, a pull returns the oldest of
\* them, also after the source has closed or failed; the completion marker or
\* the rejection goes only to a pull that finds the buffer empty.
C16_OldestFirst ==
    [][(PullStep /\ Len(queue.values) > 0) =>
          /\ queue'.results = Append(queue.results, ValueResult(Head(queue.values)))
          /\ queue'.values = Tail(queue.values)]_vars

\* The first close() or fail() call in a list of producer calls decides the
\* terminal state: failed with that error for ever, or closed and never failed.
FirstTerminalDecides(callList, q) ==
    \A i \in DOMAIN callList :
        (/\ callList[i].op \in {"close", "fail"}
         /\ \A j \in 1 .. i - 1 : callList[j].op = "push")
        => IF callList[i].op = "fail"
              THEN q.failure = callList[i].error
              ELSE q.isClosed /\ ~Failed(q)

\* C17: the first terminal transition wins.  After fail(e) a later close() or
\* fail() changes nothing a caller can observe and every later pull rejects
\* with e; after close() a later fail() or close() changes nothing and every
\* later pull that finds the buffer empty resolves with the completion marker.
C17_FirstTerminalWins ==
    [][/\ FirstTerminalDecides(produced', queue')
       /\ (Failed(queue) /\ TerminalCall) =>
              queue' = [queue EXCEPT !.isClosed = queue'.isClosed]
       /\ (queue.isClosed /\ ~Failed(queue) /\ TerminalCall) => queue' = queue
       /\ (Failed(queue) /\ PullStep) =>
              queue'.results = Append(queue.results, Rejection(queue.failure))
       /\ (queue.isClosed /\ ~Failed(queue) /\ PullStep /\ queue.values = <<>>) =>
              queue'.results = Append(queue.results, DoneResult)]_vars

\* fail(1), close(), fail(2): a pull after the close and a pull after the
\* second fail both rejected with error 1 ...
C17_Witness ==
    /\ produced = <<FailCall(PlainError(1)), CloseCall, FailCall(PlainError(2))>>
    /\ queue.results = <<Rejection(PlainError(1)), Rejection(PlainError(1))>>
    /\ settledAt = <<2, 3>>

(***************************************************************************)
(* Claims about the streaming call, checked under SpecSession and, for     *)
(* what must eventually happen, under SpecSessionLive.                     *)
(***************************************************************************)
\* C14: session.done resolves once the source has terminated, by a clean
\* close, by a failure or by a cancellation, whether or not a pull was ever
\* made: when run() has ended it is resolved, and once fetchEventSource has
\* settled it becomes resolved; no step rejects it.
C14_DoneResolves ==
    /\ [](sessPc = "ended" => sessionDone)
    /\ (sessPc = "settled" ~> sessionDone)

\* The source failed after the connection opened, no pull was ever made, and
\* session.done is resolved.
C14_Witness ==
    /\ sessPc = "ended"
    /\ outerPromise = Fulfilled
    /\ fetchResult = RejectedWith(FetchFailure)
    /\ queue.results = <<>> /\ ~queue.resolveNext
    /\ sessionDone

\* What a holder of the session and the caller of request() can observe.
SessionObservables ==
    <<sessPc, queue, runDone, settled, outerPromise, fetchResult, timeoutId,
      listening, externalSignal>>

StreamTerminated ==
    /\ queue.isClosed \/ Failed(queue)
    /\ ~queue.resolveNext
    /\ sessionDone

\* C19: if cancellation is triggered on an open session before any message
\* is pushed, and the source honours the abort by ending its run, the stream
\* reaches a terminal state for good: no pull stays suspended and
\* session.done is settled.
C19_CancelTerminates ==
    (sessPc = "open" /\ abortController.aborted /\ sent = 0) ~> []StreamTerminated

\* session.cancel() was called on the open session while a pull was
\* suspended and nothing had been pushed; the source stopped quietly, the pull
\* resolved with the completion marker and session.done is resolved.
C19_Witness ==
    /\ cancelCalls = <<"open">>
    /\ sent = 0
    /\ fetchResult = Fulfilled
    /\ sessPc = "ended"
    /\ queue.results = <<DoneResult>>
    /\ StreamTerminated

\* C20: if the source reports a status that is not a success when the
\* connection opens, the initiating call rejects with an HTTP-kind taxonomy
\* error that carries the status, and the stream of the session is failed.
C20_OpenFailureSeenByBoth ==
    (openStatus # 0 /\ ~ok(openStatus)) =>
        /\ outerPromise.kind = "rejected"
        /\ normalizeError(outerPromise.error).type = "HTTP"
        /\ normalizeError(outerPromise.error).status = openStatus
        /\ Failed(queue)

\* A request has been made and refused: no connection attempt, no session.
Refused ==
    /\ sessPc = "refused"
    /\ connects = 0
    /\ outerPromise.kind = "rejected"
    /\ queue = createAsyncQueue

\* C21 as stated: a request that is not a GET, made on the EventSource
\* transport, is rejected before any connection attempt and without a
\* session.
C21_NonGetRefused ==
    (requestMethod # "GET" /\ sessPc # "idle") => Refused

\* C21, amended: the GET-only EventSource adapter rejects a request that is
\* not a GET with an UNKNOWN-kind RequestError before any connection attempt
\* and without a session (the adapter with sessions accepts every method).
C21_GetOnlyRefusesNonGet ==
    (variant = "getOnly" /\ requestMethod # "GET" /\ sessPc # "idle") =>
        /\ Refused
        /\ outerPromise = RejectedWith(UnsupportedMethodError)

C21_Witness ==
    /\ variant = "getOnly"
    /\ requestMethod = "POST"
    /\ sessPc = "refused"
    /\ connects = 0
    /\ outerPromise = RejectedWith(UnsupportedMethodError)

\* The source reports an error on an open connection.
LateSourceError ==
    sessPc = "open" /\ sessPc' = "settled" /\ fetchResult'.kind = "rejected"

\* A holder of the session pulls from session.stream.
SessionPullStep == sessPc' = sessPc /\ sent' = sent /\ queue' # queue

\* C29: a source error after a successful open leaves the resolved
\* initiating call as it is and puts the stream in the failure state for
\* good: the suspended pull and every later pull reject with that error, and
\* session.done still settles.  A source failure before the open rejects the
\* initiating call.  The initiating call is settled at most once.
C29_LateErrorSeenInStream ==
    /\ [][LateSourceError =>
              /\ outerPromise = Fulfilled /\ outerPromise' = Fulfilled
              /\ queue'.failure = fetchResult'.error
              /\ Failed(queue')
              /\ ~queue'.resolveNext
              /\ queue'.results =
                    IF queue.resolveNext
                        THEN Append(queue.results, Rejection(fetchResult'.error))
                        ELSE queue.results]_vars
    /\ [][Failed(queue) =>
              /\ queue'.failure = queue.failure
              /\ SessionPullStep =>
                    queue'.results = Append(queue.results, Rejection(queue.failure))]_vars
    /\ [][outerPromise # Unsettled => outerPromise' = outerPromise]_vars
    /\ (sessPc = "settled" /\ fetchResult.kind = "rejected") ~> sessionDone
    /\ (sessPc = "settled" /\ fetchResult.kind = "rejected" /\ ~settled)
            ~> (outerPromise = RejectedWith(fetchResult.error))

\* The source failed on the open connection; the initiating call stayed
\* resolved, two pulls rejected with the error of the source, and
\* session.done is resolved.
C29_Witness ==
    /\ sessPc = "ended"
    /\ openStatus = 200
    /\ outerPromise = Fulfilled
    /\ fetchResult = RejectedWith(FetchFailure)
    /\ queue.failure = FetchFailure
    /\ queue.results = <<Rejection(FetchFailure), Rejection(FetchFailure)>>
    /\ sessionDone

(***************************************************************************)
(* Claims about several cursors over one stream, checked under SpecCursors.*)
(***************************************************************************)
\* The pulls that were handed a message.
ValuePulls == {i \in 1 .. Len(received) : received[i].kind = "value"}

\* C28: all cursors drain the one buffer: a pushed message is handed to at
\* most one pull of any cursor, a message handed out is no longer buffered,
\* and a pull made later, on whichever cursor, is handed a newer message than
\* every pull made before it.
C28_SharedBuffer ==
    /\ \A i, j \in ValuePulls :
          /\ received[i].value = received[j].value => i = j
          /\ i < j => received[i].value < received[j].value
    /\ \A i \in ValuePulls :
          /\ received[i].value \in 1 .. Pushes(produced)
          /\ \A k \in 1 .. Len(queue.values) : queue.values[k] # received[i].value

\* Two messages were pushed; the first cursor pulled message 1 and the second
\* cursor, first pulled after that, was handed message 2.
C28_Witness ==
    /\ cursors = 2
    /\ pullBy = <<1, 2>>
    /\ received = <<ValueResult(1), ValueResult(2)>>
    /\ produced = <<PushCall(1), PushCall(2)>>

(***************************************************************************)
(* Claims about normalizeError, checked under SpecNormalize.               *)
(***************************************************************************)
\* An Error that is neither typed already nor the exception of an abort
\* signal: the keywords of its message decide.
KeywordCase ==
    /\ instanceofError(raw)
    /\ raw.cls # "RequestError"
    /\ ~(raw.cls = "DOMException" /\ raw.name = "AbortError")

\* A TypeError whose message holds 'fetch' or 'network' as written.
FetchTypeError == raw.cls = "TypeError" /\ raw.cased \cap {"fetch", "network"} # {}

\* The kind goes by keyword: timeout before abort before network.
KeywordPriority ==
    /\ "timeout" \in raw.words => normalized.type = "TIMEOUT"
    /\ ("abort" \in raw.words /\ "timeout" \notin raw.words) =>
            normalized.type = "ABORTED"

\* C23 as stated: normalizeError returns a taxonomy error of one kind, and
\* for every raw error, a TypeError included, a message with 'timeout' gives
\* the timeout kind and a message with 'abort' but not 'timeout' gives the
\* aborted kind, whatever other keywords it holds.
C23_KeywordPriority ==
    normalized # undefined =>
        /\ normalized.cls = "RequestError"
        /\ normalized.type \in RequestErrorType
        /\ KeywordCase => KeywordPriority

\* C23, amended: normalizeError returns a taxonomy error of one kind; a typed
\* error is returned as it is, the exception of an abort signal gives the
\* aborted kind, a TypeError whose message holds 'fetch' or 'network' as
\* written gives the network kind whatever else the message holds, and for
\* every other Error the keywords decide: timeout before abort before network
\* before unknown.  A value that is not an Error gives the unknown kind.
C23_KeywordPriorityAfterTypeError ==
    normalized # undefined =>
        /\ normalized.cls = "RequestError"
        /\ normalized.type \in RequestErrorType
        /\ raw.cls = "RequestError" => normalized = raw
        /\ (raw.cls = "DOMException" /\ raw.name = "AbortError") =>
                normalized.type = "ABORTED"
        /\ (KeywordCase /\ FetchTypeError) => normalized.type = "NETWORK"
        /\ (KeywordCase /\ ~FetchTypeError) =>
                /\ KeywordPriority
                /\ ({"timeout", "abort"} \cap raw.words = {} /\ raw.name # "AbortError") =>
                        normalized.type = (IF raw.words # {} THEN "NETWORK" ELSE "UNKNOWN")
        /\ ~instanceofError(raw) => normalized.type = "UNKNOWN"

\* A TypeError whose message reads 'Network Timeout, aborted' was given the
\* timeout kind.
C23_Witness ==
    /\ raw.cls = "TypeError"
    /\ raw.words = {"timeout", "abort", "network"}
    /\ raw.cased = {}
    /\ normalized.type = "TIMEOUT"

(***************************************************************************)
(* Claims about client.request, checked under SpecDispatch.                *)
(***************************************************************************)
\* C24: whenever client.request() rejects, it rejects with a taxonomy error
\* (a RequestError of one kind), whether the failure came from the
\* transport or from a middleware of the chain.
C24_OnlyTaxonomyErrors ==
    requestResult.kind = "rejected" =>
        /\ requestResult.error.cls = "RequestError"
        /\ requestResult.error.type \in RequestErrorType

(***************************************************************************)
(* Claims about the fetch adapter, checked under SpecFetch.                *)
(***************************************************************************)
\* C22: for a request with both a caller signal and a timeout that the
\* transport ended with the abort exception, the error says which cause
\* fired first: a TimeoutError if the timer did, the AbortError 'Request
\* aborted by user' if the caller did, in every interleaving of the timer,
\* the caller's abort and the rejection of the transport.
C22_FirstCauseDecides ==
    (/\ fetchPc = "done"
     /\ userSignal # "none" /\ fetchTimer # "none"
     /\ fetchOutcome = RejectionOutcome(AbortFailure)
     /\ causes # <<>>) =>
        /\ causes[1] = "timeout" => fetchReturn = RejectedWith(RequestTimeoutError)
        /\ causes[1] = "user" => fetchReturn = RejectedWith(UserAbortError)

\* The caller's signal was aborted before request() was called.
AbortedBeforehand ==
    userSignal = "aborted" /\ \A i \in 1 .. Len(causes) : causes[i] # "user"

\* C30: when the caller's signal is aborted already as request() is called,
\* the call rejects with an aborted-kind error, fetchFn is not called, and
\* no timer is armed.
C30_AbortedBeforehand ==
    (AbortedBeforehand /\ fetchPc # "idle") =>
        /\ fetchPc = "done"
        /\ fetchReturn = RejectedWith(UserAbortError)
        /\ fetchReturn.error.type = "ABORTED"
        /\ fetchCalls = 0
        /\ fetchTimer \in {"none", "requested"}
        /\ internalAbortController = "none"
        /\ ~userListener

\* A request with a timeout and a signal that was aborted already was
\* rejected at once.
C30_Witness ==
    /\ AbortedBeforehand
    /\ fetchTimer = "requested"
    /\ fetchPc = "done"
    /\ fetchCalls = 0
    /\ fetchReturn.kind = "rejected"
    /\ fetchReturn.error.type = "ABORTED"

(***************************************************************************)
(* Claims about cacheMiddleware, checked under SpecCache.                  *)
(***************************************************************************)
GetCalls == {i \in 1 .. Len(cacheCalls) : cacheCalls[i].request.method = "GET"}

\* The keys of an object, whatever their order.
ParamKeys(params) == {stringify(params)[k] : k \in 1 .. Len(stringify(params))}

\* Two requests with the same url and the same params.
SameUrlAndParams(r, q) ==
    r.url = q.url /\ ParamKeys(r.params) = ParamKeys(q.params)

\* Two requests with the same url and the same JSON text of the params.
SameUrlAndText(r, q) ==
    r.url = q.url /\ stringify(r.params) = stringify(q.params)

\* The downstream chain of call i produced a response.
DownstreamResponded(i) == cacheCalls[i].invoked /\ cacheCalls[i].response # 0

\* Call j was made after call i had returned.
MadeAfter(j, i) ==
    cacheCalls[i].finished > 0 /\ cacheCalls[j].entered > cacheCalls[i].finished

\* C25 as stated: once the downstream chain of a GET has produced a
\* response, every later GET with the same url and the same params gets
\* that response without a call of next(), and the downstream is invoked
\* once for a cache key.
C25_OncePerKey ==
    /\ \A i, j \in GetCalls :
          (/\ DownstreamResponded(i)
           /\ SameUrlAndParams(cacheCalls[i].request, cacheCalls[j].request)
           /\ MadeAfter(j, i)) =>
              /\ ~cacheCalls[j].invoked
              /\ cacheCalls[j].response = cacheCalls[i].response
    /\ \A i, j \in GetCalls :
          (/\ cacheCalls[i].invoked /\ cacheCalls[j].invoked
           /\ SameUrlAndText(cacheCalls[i].request, cacheCalls[j].request)) =>
              i = j

\* The calls whose response was stored under the key of call j before call j
\* was made.
StoredBefore(j) ==
    {i \in GetCalls :
        /\ DownstreamResponded(i)
        /\ SameUrlAndText(cacheCalls[i].request, cacheCalls[j].request)
        /\ MadeAfter(j, i)}

\* C25, amended: a GET made after the downstream chain of a GET with the
\* same url and the same JSON text of the params has produced a response
\* makes no call of next() and gets the response stored last under that key
\* before it was made; a GET made before that, and every request that is
\* not a GET, calls next().
C25_ServedFromStore ==
    /\ \A j \in 1 .. Len(cacheCalls) :
          cacheCalls[j].invoked = (j \notin GetCalls \/ StoredBefore(j) = {})
    /\ \A j \in GetCalls :
          StoredBefore(j) # {} =>
              \E i \in StoredBefore(j) :
                  /\ cacheCalls[j].response = cacheCalls[i].response
                  /\ \A k \in StoredBefore(j) :
                        cacheCalls[k].finished <= cacheCalls[i].finished

\* The downstream of a first GET produced a response; two later GETs with
\* the same url and params got it without a call of next().
C25_Witness ==
    /\ Len(cacheCalls) = 3
    /\ \A i \in 1 .. 3 :
          cacheCalls[i].request =
              [method |-> "GET", url |-> "/x",
               params |-> [given |-> TRUE, keys |-> <<"a", "b">>]]
    /\ DownstreamResponded(1)
    /\ \A j \in 2 .. 3 :
          /\ ~cacheCalls[j].invoked
          /\ cacheCalls[j].response = cacheCalls[1].response

(***************************************************************************)
(* Claims about the middleware of createRetryMiddleware, checked under     *)
(* SpecRetryMw.                                                            *)
(***************************************************************************)
\* C26: when every call of next() throws, next() is called retries + 1
\* times, a delay is waited after each attempt but the last (and none when
\* delay is 0), and the middleware rejects with the error of the last
\* attempt.
C26_RetriesPlusOne ==
    /\ mwCalls <= mwOptions.retries + 1
    /\ \A k \in 1 .. Len(mwSleeps) : mwSleeps[k] < mwOptions.retries
    /\ (mwPc = "done" /\ mwAllThrew) =>
          /\ mwCalls = mwOptions.retries + 1
          /\ mwResult = RejectedWith(PlainError(mwCalls))
          /\ mwSleeps = IF mwOptions.delay > 0
                            THEN [k \in 1 .. mwOptions.retries |-> k - 1]
                            ELSE <<>>

\* With retries 2 and delay 200, next() threw three times, a delay was
\* waited after the first and after the second attempt, and the middleware
\* rejected with the third error.
C26_Witness ==
    /\ mwOptions = [retries |-> 2, delay |-> 200]
    /\ mwPc = "done"
    /\ mwAllThrew
    /\ mwCalls = 3
    /\ mwSleeps = <<0, 1>>
    /\ mwResult = RejectedWith(PlainError(3))

(***************************************************************************)
(* Claims about the middleware of createThrottleMiddleware, checked under  *)
(* SpecThrottle.                                                           *)
(***************************************************************************)
\* The calls admitted in the window of length interval that starts at w.
AdmittedInWindow(w) ==
    {i \in 1 .. Len(thCalls) :
        /\ thCalls[i].admittedAt # NotAdmitted
        /\ w <= thCalls[i].admittedAt
        /\ thCalls[i].admittedAt < w + thOptions.interval}

\* C27: a call is admitted at once when fewer than limit calls were
\* admitted in the last interval milliseconds, and waits otherwise; so no
\* window of length interval holds more than limit admissions.
C27_WindowLimit ==
    /\ \A i \in 1 .. Len(thCalls) :
          IF thCalls[i].recent < thOptions.limit
              THEN thCalls[i].admittedAt = thCalls[i].arrivedAt
              ELSE \/ thCalls[i].state = "waiting"
                      /\ thCalls[i].admittedAt = NotAdmitted
                   \/ thCalls[i].admittedAt >= thCalls[i].arrivedAt
                      /\ \E k \in 1 .. Len(thCalls) :
                            /\ thCalls[k].state = "done"
                            /\ thCalls[k].admittedAt + thOptions.interval
                                    <= thCalls[i].admittedAt
    /\ \A w \in 0 .. MaxTime :
          Cardinality(AdmittedInWindow(w)) <= thOptions.limit

\* With limit 1 and interval 2, the first call was admitted at once, the
\* second one, made in the same millisecond, waited and was admitted by the
\* wake-up two milliseconds later.
C27_Witness ==
    /\ thOptions = [limit |-> 1, interval |-> 2]
    /\ Len(thCalls) >= 2
    /\ thCalls[1].arrivedAt = 0 /\ thCalls[1].admittedAt = 0
    /\ thCalls[2].arrivedAt = 0 /\ thCalls[2].admittedAt = 2

(***************************************************************************)
(* Claims about suspended pulls, checked under SpecCursors and SpecQueue.  *)
(***************************************************************************)
\* The pulls whose promise is still unsettled.
PendingPulls == {i \in 1 .. Len(received) : received[i] = Suspended}

\* The queue has reached a terminal state.
Terminated(q) == q.isClosed \/ truthy(q.failure)

\* C31: every pull that suspended is settled by the next push, by close or
\* by failure, also when several pulls are outstanding at the same time: at
\* most the pull holding the slot is unsettled, and none is unsettled once
\* the source has terminated.
C31_EverySuspendedPullSettled ==
    /\ \A i \in PendingPulls : i = holder
    /\ Terminated(queue) => PendingPulls = {}

(***************************************************************************)
(* Claims about the states of the stream queue, checked under SpecQueue.   *)
(***************************************************************************)
\* The position of the first close() or fail() in a list of producer calls.
FirstTerminal(callList) ==
    IF \E i \in DOMAIN callList : callList[i].op \in {"close", "fail"}
        THEN CHOOSE i \in DOMAIN callList :
                /\ callList[i].op \in {"close", "fail"}
                /\ \A j \in 1 .. i - 1 : callList[j].op = "push"
        ELSE Len(callList) + 1

\* The messages pushed before the queue reached a terminal state.
PushedBeforeEnd ==
    PushedValues(SubSeq(produced, 1, FirstTerminal(produced) - 1))

\* A step in which the producer calls push().
PushStep ==
    /\ produced' # produced
    /\ produced'[Len(produced')].op = "push"

\* C39: a push that arrives after the queue was closed or failed is
\* dropped: it changes neither the buffer nor the settlement of any pull,
\* and every message a pull obtains was pushed before the terminal call.
C39_PushAfterEndDropped ==
    [][/\ (Terminated(queue) /\ PushStep) => queue' = queue
       /\ \A i \in DOMAIN queue'.results :
             queue'.results[i].kind = "value" =>
                \E k \in DOMAIN PushedBeforeEnd' :
                    PushedBeforeEnd'[k] = queue'.results[i].value
       /\ \A i \in DOMAIN queue'.values :
             \E k \in DOMAIN PushedBeforeEnd' :
                 PushedBeforeEnd'[k] = queue'.values[i]]_vars

\* push(1), close(), push(2): the pulls obtained message 1 and the
\* completion marker, and a pull made after the late push obtained the
\* completion marker again.
C39_Witness ==
    /\ produced = <<PushCall(1), CloseCall, PushCall(2)>>
    /\ queue.results = <<ValueResult(1), DoneResult, DoneResult>>
    /\ settledAt = <<1, 2, 3>>
    /\ queue.values = <<>>

\* C40: a pull is suspended only while the buffer is empty and the queue is
\* neither closed nor failed.
C40_SlotOnlyWhileEmptyAndOpen ==
    queue.resolveNext =>
        /\ queue.values = <<>>
        /\ ~queue.isClosed
        /\ ~Failed(queue)

\* Message 1 was pushed and pulled, and the next pull is suspended on the
\* empty, open queue.
C40_Witness ==
    /\ produced = <<PushCall(1)>>
    /\ queue.results = <<ValueResult(1)>>
    /\ queue.resolveNext
    /\ queue.values = <<>>
    /\ ~Terminated(queue)

(***************************************************************************)
(* Claims about the settlement of the streaming call, checked under        *)
(* SpecSession.                                                            *)
(***************************************************************************)
\* C33: once the run of the source has finished, the promise returned by
\* request() is settled, also when the source ended without ever reporting
\* the connection open.
C33_RequestSettlesWhenRunEnds ==
    (variant = "session" /\ sessPc = "ended") => outerPromise # Unsettled

(***************************************************************************)
(* Claims about the calls of next() made by createRetryMiddleware of       *)
(* retryMiddleware.ts, checked under SpecRetryMw.                          *)
(***************************************************************************)
\* C32: a middleware shipped with the library calls its next continuation
\* at most once in one invocation.
C32_NextAtMostOnce == mwCalls <= 1

\* C34: as soon as a call of next() has completed without throwing, the
\* middleware stops and resolves, whatever happened on earlier attempts: it
\* makes no further call and does not rethrow an earlier error.
C34_SuccessStopsRetrying ==
    ~mwAllThrew => (mwPc = "done" /\ mwResult = Fulfilled)

(***************************************************************************)
(* Claims about waiting in createThrottleMiddleware, checked under         *)
(* SpecThrottle.                                                           *)
(***************************************************************************)
\* A call is in flight: it was admitted and its next() has not settled.
InFlight == {i \in 1 .. Len(thCalls) : thCalls[i].state = "admitted"}

\* C35: no queued request waits forever.  A queued request is admitted only
\* by a wake-up timer, and a timer is set only when the next() of an
\* admitted request resolves; so while a request is queued, a timer is
\* pending or a request is in flight, also after the next() of an admitted
\* request has rejected.
C35_QueuedWillBeWoken ==
    thQueue # <<>> => (wakeTimers # <<>> \/ InFlight # {})

(***************************************************************************)
(* Claims about raw failures in the retry decorator, checked under         *)
(* SpecRetry.                                                              *)
(***************************************************************************)
\* A failure that is no instance of the taxonomy's RequestError.
IsRaw(error) == error # NoError /\ error.cls # "RequestError"

\* C36: without a custom predicate, a failure of the transport that is no
\* taxonomy error is never retried: the request rejects with that very
\* error as soon as the call has thrown it, with no observer call, no delay
\* and no further transport call, so a transport that fails raw at its
\* first call is called exactly once.
C36_RawNeverRetried ==
    (options.shouldRetry = "none" /\ IsRaw(lastError)) =>
        /\ RethrownAtOnce(lastError)
        /\ Count(trace, "fail") = 1 => calls = 1

\* With three retries allowed and an observer configured, the first call
\* threw a raw error and the request rejected with it after that one call.
C36_Witness ==
    /\ options.shouldRetry = "none"
    /\ options.maxRetries = 3
    /\ options.onRetry
    /\ IsRaw(lastError)
    /\ calls = 1
    /\ outcome = Rejected(lastError)
    /\ observed = <<>>
    /\ slept = <<>>

(***************************************************************************)
(* Claims about what cacheMiddleware leaves alone, checked under           *)
(* SpecCache.                                                              *)
(***************************************************************************)
\* The calls whose next() settles in the step.
Finishing == {i \in 1 .. Len(cacheCalls) :
                cacheCalls[i].finished = 0 /\ cacheCalls'[i].finished # 0}

\* The calls that are not GET requests.
OtherCalls(callList) ==
    {i \in 1 .. Len(callList) : callList[i].request.method # "GET"}

\* C37: the cache changes only in a step in which the next() of a GET
\* completes with ctx.response set, and then only under the key of that
\* request; a GET whose next() throws or leaves no response leaves the cache
\* as it was.  A request that is not a GET always calls next(), gets what
\* next() left and nothing from the cache, and leaves the cache as it was,
\* also when a GET with the same url and params is cached.
C37_CacheChangesOnlyOnGetResponse ==
    [][/\ cacheStore' # cacheStore =>
             \E i \in Finishing :
                /\ cacheCalls[i].request.method = "GET"
                /\ ~cacheCalls'[i].threw
                /\ cacheCalls'[i].response # 0
                /\ cacheStore' = [cacheStore EXCEPT
                      ![cacheKey(cacheCalls[i].request)] = cacheCalls'[i].response]
       /\ \A i \in Finishing :
             (cacheCalls'[i].threw \/ cacheCalls'[i].response = 0) =>
                cacheStore' = cacheStore
       /\ \A j \in OtherCalls(cacheCalls') :
             /\ cacheCalls'[j].invoked
             /\ j \in Finishing => cacheStore' = cacheStore
             /\ j \in Finishing => cacheCalls'[j].response \in {0, responses'}
             /\ j \notin 1 .. Len(cacheCalls) => cacheCalls'[j].response = 0]_vars

\* GET /y was answered and stored; a POST to /y with the same params then
\* called next() and got its own response; a GET whose next() threw stored
\* nothing: the cache holds the response of the first call only.
C37_Witness ==
    /\ Len(cacheCalls) = 3
    /\ cacheCalls[1].request = [method |-> "GET", url |-> "/y", params |-> NoParams]
    /\ cacheCalls[1].response = 1
    /\ cacheCalls[2].request = [method |-> "POST", url |-> "/y", params |-> NoParams]
    /\ cacheCalls[2].entered > cacheCalls[1].finished
    /\ cacheCalls[2].invoked
    /\ cacheCalls[2].response = 2
    /\ cacheCalls[3].request.method = "GET"
    /\ cacheCalls[3].threw
    /\ cacheStore = [k \in CacheKeys |->
                        IF k = cacheKey(cacheCalls[1].request) THEN 1 ELSE 0]

(***************************************************************************)
(* Claims about what client.request() resolves with, checked under         *)
(* SpecDispatch.                                                           *)
(***************************************************************************)
\* The adapter call of finalHandler has rejected.
TransportFailed == truthy(adapterFailure)

\* What finalHandler records in ctx.error and throws.
HandlerFailure == [origin |-> 0, seg |-> "h"]

\* C38: client.request() resolves only when ctx.response is set; when the
\* dispatch completes without error and ctx.response is unset, it rejects
\* with a RequestError of kind UNKNOWN; when the transport fails, ctx.error
\* holds the normalized error finalHandler threw, ctx.response stays unset
\* and the call does not resolve.
C38_DefinedResponseOrError ==
    /\ requestResult = Fulfilled =>
          ctx.response = "set" /\ dispatchResult.kind = "resolved"
    /\ (/\ requestResult # Unsettled
        /\ dispatchResult.kind = "resolved"
        /\ ctx.response = "unset") =>
          /\ requestResult = RejectedWith(NoResponseError)
          /\ requestResult.error.type = "UNKNOWN"
    /\ TransportFailed =>
          /\ ctx.error = HandlerFailure
          /\ thrown(ctx.error).cls = "RequestError"
          /\ ctx.response = "unset"
          /\ requestResult.kind # "resolved"
          /\ (requestResult # Unsettled /\ dispatchResult.error = HandlerFailure) =>
                requestResult = RejectedWith(normalizeError(adapterFailure))
    /\ ~TransportFailed => ctx.error = NoExc

\* The transport failed, a middleware caught the rejection of next() and
\* returned, so the dispatch completed without error and without a
\* response: the call rejected with the UNKNOWN error.
C38_Witness ==
    /\ TransportFailed
    /\ dispatchResult.kind = "resolved"
    /\ ctx.response = "unset"
    /\ ctx.error = HandlerFailure
    /\ requestResult = RejectedWith(NoResponseError)

====
